---- MODULE Spec2Model ----
(***************************************************************************)
(* LampbookLM: the in-memory vector store of the RAG service               *)
(* (services/ragService.ts), the chat service (services/geminiService.ts)  *)
(* and the orchestration hook (hooks/useLampbook.ts, RAG + streaming       *)
(* variant) with the gates the panels put in front of it.                  *)
(*                                                                         *)
(* The specifications share the state:                                     *)
(*   SpecStore  the exported vector-store functions called by an arbitrary *)
(*              client: upsert, remove and clear in any interleaving;      *)
(*   SpecSearch searchRelevantChunks and formatChunksForContext called by  *)
(*              an arbitrary client on a populated store;                  *)
(*   Spec       the application: the hook's operations as the user         *)
(*              interface lets the user invoke them, with every await of   *)
(*              the code as a suspension point;                            *)
(*   SpecChat   the application on a workspace of two indexed sources;     *)
(*   SpecNotes  SpecChat with synthesizeNotes and the adding of a page;    *)
(*   SpecHook   the hook's operations called without the panels' gates;    *)
(*   SpecCap    the add and delete operations on a workspace near the cap; *)
(*   SpecChunk  chunkDocument called on texts of up to 1300 characters,    *)
(*              one loop pass per step (SpecChunkLive: the loop runs on).  *)
(*                                                                         *)
(* Representation choices.                                                 *)
(*   - A document's content is represented by the sequence of chunk texts  *)
(*     that chunkDocument yields for it (textChunksOf); chunkDocument      *)
(*     itself is modelled on sequences of characters.                      *)
(*   - Identifiers built from Date.now() are fresh: a counter supplies     *)
(*     them.                                                               *)
(*   - A streamed reply is the sequence of its increments; a message text  *)
(*     is the sequence of increments appended so far (cumulative text).    *)
(***************************************************************************)
EXTENDS Integers, Sequences, FiniteSets, TLC

\* ------------------------------------------------------------------ bounds
MaxCalls == 3        \* vector-store API calls issued in SpecStore
MaxSources == 2      \* sources ever added in Spec
MaxTurns == 2        \* sendMessage calls ever issued in Spec
MaxChatTurns == 3    \* sendMessage calls ever issued in SpecChat
MaxStream == 2       \* increments a streamed reply can have
MaxEdits == 1        \* stop / delete / toggle / clear clicks in Spec
MaxTopK == 3         \* largest topK asked for in SpecSearch
MaxStops == 2        \* stopGenerating calls in SpecHook
MaxHookAdds == 1     \* addSourceFromUrl calls in SpecHook
MaxCapAdds == 3      \* sources ever added in SpecCap
MaxCapDeletes == 1   \* deleteSource calls in SpecCap
MaxNoteOps == 3      \* sendMessage and synthesizeNotes calls in SpecNotes
MaxPasses == 40     \* loop passes of one chunkDocument call in SpecChunk
CapStart == 19       \* sources the workspace of SpecCap starts with

\* ------------------------------------------------------- program constants
MAX_SOURCES == 20    \* useLampbook.ts: const MAX_SOURCES = 20
TopK == 5            \* sendMessage: searchRelevantChunks(message, 5, ...)

None == "none"
\* null in a ref that otherwise holds an object with a positive id
Null == 0

\* ---------------------------------------------------------------- inputs
\* Source ids and display names the store-level client uses.
StoreIds == {"A", "B"}
StoreNames == {"n"}
\* Document contents; each stands for the chunk texts chunkDocument gives.
Contents == {"docA", "docB"}
\* The files the user can pick and the URL the user can paste.
Files == {[name |-> "a.txt", content |-> "docA"],
          [name |-> "b.txt", content |-> "docB"]}
Urls == {"http://u"}
\* What the user can ask.
Messages == {"q1"}

VARIABLES
    vectorStore,        \* vectorStore.chunks: sequence of Chunk
    upserts,            \* addDocumentToVectorStore calls awaiting embeddings
    calls,              \* history: the store calls issued so far, each with
                        \* the store as it was when the call was made
                        \* (SpecStore); the last search or format call with
                        \* what it returned (SpecSearch); the running
                        \* chunkDocument call (SpecChunk)
    sources,            \* useState<Source[]>
    chatMessages,       \* useState<ChatMessage[]>
    isLoading,          \* useState<boolean>
    isStreaming,        \* useState<boolean>
    chatSessionRef,     \* chatSessionRef.current: None or a session
    abortControllerRef, \* abortControllerRef.current: None or a controller id
    aborted,            \* controllers whose signal is aborted
    ingests,            \* addSourcesFromFiles / addSourceFromUrl calls in flight
    turns,              \* sendMessage calls in flight
    nextSource,         \* supply of fresh source ids (src_${Date.now()}...)
    nextTurn,           \* supply of fresh message / controller / session ids
    deleted,            \* history: ids of sources removed by delete / clear
    ended,              \* history: the turns that ended, with their outcome
    edits               \* history: number of stop/delete/toggle/clear clicks

storeVars == <<vectorStore, upserts, calls>>
hookVars == <<sources, chatMessages, isLoading, isStreaming, chatSessionRef,
              abortControllerRef, aborted, ingests, turns, nextSource, nextTurn,
              deleted, ended, edits>>
vars == <<vectorStore, upserts, calls, sources, chatMessages, isLoading,
          isStreaming, chatSessionRef, abortControllerRef, aborted, ingests,
          turns, nextSource, nextTurn, deleted, ended, edits>>

\* --------------------------------------------------------------- helpers
Range(s) == {s[i] : i \in DOMAIN s}

RECURSIVE SelectSeqBy(_, _)
\* Array.prototype.filter with the predicate given as the set of kept values.
SelectSeqBy(s, keep) ==
    IF s = <<>> THEN <<>>
    ELSE IF Head(s) \in keep THEN <<Head(s)>> \o SelectSeqBy(Tail(s), keep)
         ELSE SelectSeqBy(Tail(s), keep)

\* ------------------------------------------------- chunking and embedding
\* const textChunks = chunkDocument(content): the chunk texts of a document.
textChunksOf(content) ==
    CASE content = "docA" -> <<"a0">>
      [] content = "docB" -> <<"b0", "b1">>
      [] OTHER -> <<>>

\* The embedding the provider returns for a text (a fixed model).
EmbeddingOf(text) ==
    CASE text = "a0" -> <<2, 1>>
      [] text = "b0" -> <<1, 2>>
      [] text = "b1" -> <<1, 1>>
      [] text = "q1" -> <<1, 0>>
      [] text = "q2" -> <<0, 1>>
      [] text = "c0" -> <<-1, 1>>
      [] text = "d0" -> <<0, 1, 1>>
      [] text = "q3" -> <<1, 0, 1>>
      [] OTHER -> <<1, 1>>

\* generateEmbeddingsBatch on success: one vector per text, in input order.
generateEmbeddingsBatch(texts) == [i \in DOMAIN texts |-> EmbeddingOf(texts[i])]

\* ------------------------------------------------------ the vector store
\* vectorStore.chunks.filter(c => c.sourceId !== sourceId)
WithoutSource(chunks, sourceId) ==
    SelectSeqBy(chunks, {c \in Range(chunks) : c.sourceId # sourceId})

\* textChunks.map((text, index) => ({id, sourceId, sourceName, text,
\* embedding: embeddings[index], index}))
ChunkObjects(sourceId, sourceName, textChunks, embeddings) ==
    [i \in DOMAIN textChunks |->
        [id |-> <<sourceId, i - 1>>, sourceId |-> sourceId,
         sourceName |-> sourceName, text |-> textChunks[i],
         embedding |-> embeddings[i], index |-> i - 1]]

\* addDocumentToVectorStore up to its await: the existing chunks of the
\* source are removed, the text is chunked and the embedding call is issued.
UpsertBegin(call, sourceId, sourceName, content) ==
    /\ vectorStore' = WithoutSource(vectorStore, sourceId)
    /\ upserts' = upserts \cup
          {[call |-> call, sourceId |-> sourceId, sourceName |-> sourceName,
            textChunks |-> textChunksOf(content)]}

\* addDocumentToVectorStore after the await: the chunk objects are pushed.
UpsertPush(u) ==
    vectorStore \o ChunkObjects(u.sourceId, u.sourceName, u.textChunks,
                                generateEmbeddingsBatch(u.textChunks))

\* removeDocumentFromVectorStore
removeDocumentFromVectorStore(chunks, sourceId) == WithoutSource(chunks, sourceId)

\* clearVectorStore
clearVectorStore == <<>>

\* The embeddings of a pending upsert arrive: its chunks are pushed.
EmbeddingsResolve(u) ==
    /\ u \in upserts
    /\ vectorStore' = UpsertPush(u)
    /\ upserts' = upserts \ {u}

\* The embedding step of a pending upsert fails: generateEmbeddingsBatch
\* throws, addDocumentToVectorStore rejects and nothing more is done.
EmbeddingsReject(u) ==
    /\ u \in upserts
    /\ vectorStore' = vectorStore
    /\ upserts' = upserts \ {u}

\* ------------------------------------------------------------- retrieval
RECURSIVE SumTo(_, _)
SumTo(f, n) == IF n = 0 THEN 0 ELSE f[n] + SumTo(f, n - 1)

Dot(a, b) == SumTo([i \in DOMAIN a |-> a[i] * b[i]], Len(a))

\* A length check that only catches a longer first vector.
cosineSimilarityThrows_LongerFirst(a, b) == Len(a) > Len(b)

\* cosineSimilarity throws when the vectors differ in length.
cosineSimilarityThrows(a, b) == Len(a) # Len(b)

\* cosineSimilarity(a, b) = dot / (sqrt(normA) * sqrt(normB)), kept exact as
\* the triple <<sign, dot^2, normA * normB>>: the score is sign*sqrt(dot^2/den).
cosineSimilarity(a, b) ==
    LET d == Dot(a, b)
    IN  [sign |-> IF d > 0 THEN 1 ELSE IF d < 0 THEN -1 ELSE 0,
         sq |-> d * d, den |-> Dot(a, a) * Dot(b, b)]

\* x.score > y.score for two exact scores.
ScoreGreater(x, y) ==
    x.sign * x.sq * y.den > y.sign * y.sq * x.den

RECURSIVE InsertByScore_Unstable(_, _)
\* An insertion that puts x in front of the items of equal score.
InsertByScore_Unstable(sorted, x) ==
    IF sorted = <<>> THEN <<x>>
    ELSE IF ~ScoreGreater(Head(sorted).score, x.score)
         THEN <<x>> \o sorted
         ELSE <<Head(sorted)>> \o InsertByScore_Unstable(Tail(sorted), x)

RECURSIVE InsertByScore(_, _)
\* Insert item x behind every item whose score is not smaller (stable).
InsertByScore(sorted, x) ==
    IF sorted = <<>> THEN <<x>>
    ELSE IF ScoreGreater(x.score, Head(sorted).score)
         THEN <<x>> \o sorted
         ELSE <<Head(sorted)>> \o InsertByScore(Tail(sorted), x)

RECURSIVE SortByScore(_)
\* chunksWithScores.sort((a, b) => b.score - a.score): descending, stable.
SortByScore(items) ==
    IF items = <<>> THEN <<>>
    ELSE InsertByScore(SortByScore(SubSeq(items, 1, Len(items) - 1)),
                       items[Len(items)])

\* A search that ignores the source filter.
SearchableChunks_Unfiltered(chunks, sourceIds) == chunks

\* The chunks searchRelevantChunks ranks: the store, narrowed to sourceIds
\* when that array is given and not empty.
SearchableChunks(chunks, sourceIds) ==
    IF sourceIds # <<>>
    THEN SelectSeqBy(chunks, {c \in Range(chunks) : c.sourceId \in Range(sourceIds)})
    ELSE chunks

\* chunk.embedding ? ... : the chunk carries a vector.
HasEmbedding(chunk) == "embedding" \in DOMAIN chunk

\* The score given to a chunk without a vector: 0.
ZeroScore == [sign |-> 0, sq |-> 0, den |-> 1]

\* chunk.embedding ? cosineSimilarity(queryEmbedding, chunk.embedding) : 0
ScoreOf(queryEmbedding, chunk) ==
    IF HasEmbedding(chunk) THEN cosineSimilarity(queryEmbedding, chunk.embedding)
    ELSE ZeroScore

\* searchRelevantChunks throws when cosineSimilarity does.
searchThrows(queryEmbedding, sourceIds, chunks) ==
    \E c \in Range(SearchableChunks(chunks, sourceIds)) :
        HasEmbedding(c) /\ cosineSimilarityThrows(queryEmbedding, c.embedding)

\* searchRelevantChunks after its await: score, sort, slice(0, topK).
searchRelevantChunks(queryEmbedding, topK, sourceIds, chunks) ==
    LET searchable == SearchableChunks(chunks, sourceIds)
        scored == [i \in DOMAIN searchable |->
                      [chunk |-> searchable[i],
                       score |-> ScoreOf(queryEmbedding, searchable[i])]]
        ranked == SortByScore(scored)
        n == IF Len(ranked) < topK THEN Len(ranked) ELSE topK
    IN  [i \in 1 .. n |-> ranked[i].chunk]

\* ------------------------------------------------------------ formatting
RECURSIVE FirstSeenIds_LastSeen(_, _)
\* The distinct sourceIds in the order each is met for the last time.
FirstSeenIds_LastSeen(chunks, seen) ==
    IF chunks = <<>> THEN <<>>
    ELSE IF \E j \in 2 .. Len(chunks) : chunks[j].sourceId = Head(chunks).sourceId
         THEN FirstSeenIds_LastSeen(Tail(chunks), seen)
         ELSE <<Head(chunks).sourceId>> \o FirstSeenIds_LastSeen(Tail(chunks), seen)

RECURSIVE FirstSeenIds(_, _)
\* The distinct sourceIds of chunks in the order each is first met (the
\* insertion order of the Map chunksBySource).
FirstSeenIds(chunks, seen) ==
    IF chunks = <<>> THEN <<>>
    ELSE IF Head(chunks).sourceId \in seen
         THEN FirstSeenIds(Tail(chunks), seen)
         ELSE <<Head(chunks).sourceId>> \o
              FirstSeenIds(Tail(chunks), seen \cup {Head(chunks).sourceId})

\* formatChunksForContext: one block "Source [n] name:" per source, followed
\* by the texts of its chunks in input order.  The string is kept as the
\* sequence of its blocks.
formatChunksForContext(chunks) ==
    LET ids == FirstSeenIds(chunks, {})
    IN  [n \in DOMAIN ids |->
            LET sourceChunks ==
                    SelectSeqBy(chunks, {c \in Range(chunks) : c.sourceId = ids[n]})
            IN  [sourceIndex |-> n,
                 sourceName |-> sourceChunks[1].sourceName,
                 texts |-> [i \in DOMAIN sourceChunks |-> sourceChunks[i].text]]]

\* ------------------------------------------------- the hook: pure helpers
\* chatSessionRef.current = null
NoSession ==
    [id |-> Null, relevantContext |-> <<>>, history |-> <<>>,
     hChanged |-> FALSE, hClean |-> FALSE]

ErrorText == <<"Sorry, I encountered an error while processing your request.">>
ErrorContent == "Error: could not be processed"

\* parseUrl(url): the readable text of the page and its title.
parseUrl(url) == [content |-> "docA", name |-> "Page title"]

\* sources.filter(s => !s.excluded && !s.generating)
ActiveSources(srcs) ==
    SelectSeqBy(srcs, {x \in Range(srcs) : ~x.excluded /\ ~x.generating})

SourceIds(srcs) == [i \in DOMAIN srcs |-> srcs[i].id]

\* chatMessages.filter(m => m.role === 'user').length === 0
NoUserMessage(msgs) == \A i \in DOMAIN msgs : msgs[i].role # "user"

\* A map that tests the role instead of the id.
SetMessageText_ByRole(msgs, messageId, text) ==
    [i \in DOMAIN msgs |->
        IF msgs[i].role = "model" /\ msgs[i].activeSourcesContext # <<>>
        THEN [msgs[i] EXCEPT !.text = text]
        ELSE msgs[i]]

\* A map that forgets the id test and rewrites every message.
SetMessageText_Every(msgs, messageId, text) ==
    [i \in DOMAIN msgs |-> [msgs[i] EXCEPT !.text = text]]

\* A map that appends the message when no message has the id.
SetMessageText_Upserting(msgs, messageId, text) ==
    IF \E i \in DOMAIN msgs : msgs[i].id = messageId
    THEN [i \in DOMAIN msgs |->
             IF msgs[i].id = messageId THEN [msgs[i] EXCEPT !.text = text]
             ELSE msgs[i]]
    ELSE Append(msgs, [id |-> messageId, role |-> "model", text |-> text,
                       activeSourcesContext |-> <<>>])

\* prev.map(msg => msg.id === modelMessageId ? {...msg, text} : msg)
SetMessageText(msgs, messageId, text) ==
    [i \in DOMAIN msgs |->
        IF msgs[i].id = messageId THEN [msgs[i] EXCEPT !.text = text]
        ELSE msgs[i]]

\* A replacement that also puts back the final sources that are no longer
\* in the list.
ReplaceSources_Reinserting(srcs, finals) ==
    [i \in DOMAIN srcs |->
        IF \E k \in DOMAIN finals : finals[k].id = srcs[i].id
        THEN finals[CHOOSE k \in DOMAIN finals : finals[k].id = srcs[i].id]
        ELSE srcs[i]]
    \o SelectSeq(finals,
                 LAMBDA f : ~\E i \in DOMAIN srcs : srcs[i].id = f.id)

\* prev.map(s => finalSourcesMap.get(s.id) || s)
ReplaceSources(srcs, finals) ==
    [i \in DOMAIN srcs |->
        IF \E k \in DOMAIN finals : finals[k].id = srcs[i].id
        THEN finals[CHOOSE k \in DOMAIN finals : finals[k].id = srcs[i].id]
        ELSE srcs[i]]

\* The text of the analysis message of a source.
AnalysisMessage(source) ==
    [id |-> <<"msg_analysis", source.id>>, role |-> "model",
     text |-> <<"Analysis for", source.name>>, activeSourcesContext |-> <<>>]

\* The n-th increment a streamed reply carries.
Increment(n) == "part " \o ToString(n)

\* History: a change of the source set or a clear happened; it is noted on
\* the live session and on every turn in flight.
NotedOnSession(session, structural) ==
    IF session.id = Null THEN session
    ELSE [session EXCEPT !.hClean = FALSE, !.hChanged = @ \/ structural]

NotedOnTurns(ts) == {[t EXCEPT !.hClean = FALSE, !.hCont = Null] : t \in ts}

RECURSIVE StoreAfterBegins(_, _)
\* The store after addDocumentToVectorStore was called for each request.
StoreAfterBegins(store, reqs) ==
    IF reqs = <<>> THEN store
    ELSE StoreAfterBegins(WithoutSource(store, Head(reqs).id), Tail(reqs))

\* The pending upserts these calls leave behind.
PendingUpserts(reqs) ==
    {[call |-> reqs[k].id, sourceId |-> reqs[k].id, sourceName |-> reqs[k].name,
      textChunks |-> textChunksOf(reqs[k].content)] : k \in DOMAIN reqs}

\* ---------------------------------------------------- the hook: ingestion
\* addSourcesFromFiles up to its first await.
addSourcesFromFiles(files) ==
    /\ ~(Len(sources) + Len(files) > MAX_SOURCES)
    /\ isLoading' = TRUE
    /\ LET newSources ==
               [k \in DOMAIN files |->
                   [id |-> nextSource + k - 1, name |-> files[k].name,
                    content |-> "Processing...", generating |-> TRUE,
                    excluded |-> FALSE]]
       IN  /\ sources' = sources \o newSources
           /\ ingests' = ingests \cup
                 {[kind |-> "files", temps |-> newSources,
                   inputs |-> [k \in DOMAIN files |-> files[k].content],
                   results |-> [k \in DOMAIN files |-> "pending"]]}
    /\ nextSource' = nextSource + Len(files)
    /\ chatSessionRef' = NotedOnSession(chatSessionRef, TRUE)
    /\ turns' = NotedOnTurns(turns)
    /\ UNCHANGED <<ended, edits, storeVars, chatMessages, isStreaming, abortControllerRef,
                   aborted, nextTurn, deleted>>

\* One file of a batch is processed: parseDocument and generateInitialAnalysis
\* returned (fulfilled) or parseDocument threw (rejected).
FileProcessed(g, k, status) ==
    /\ g \in ingests /\ g.kind = "files"
    /\ k \in DOMAIN g.results /\ g.results[k] = "pending"
    /\ ingests' = (ingests \ {g}) \cup {[g EXCEPT !.results[k] = status]}
    /\ UNCHANGED <<ended, edits, storeVars, sources, chatMessages, isLoading, isStreaming,
                   chatSessionRef, abortControllerRef, aborted, turns,
                   nextSource, nextTurn, deleted>>

\* A batch in which one failure turns every file of the batch into an error.
FinalSource_AllOrNothing(g, k) ==
    IF \A j \in DOMAIN g.results : g.results[j] = "fulfilled"
    THEN [g.temps[k] EXCEPT !.content = g.inputs[k], !.generating = FALSE]
    ELSE [g.temps[k] EXCEPT !.content = ErrorContent, !.generating = FALSE]

\* The final source of result k of a batch.
FinalSource(g, k) ==
    IF g.results[k] = "fulfilled"
    THEN [g.temps[k] EXCEPT !.content = g.inputs[k], !.generating = FALSE]
    ELSE [g.temps[k] EXCEPT !.content = ErrorContent, !.generating = FALSE]

\* Promise.all resolved: addSourcesFromFiles after its await.
FilesDone(g) ==
    /\ g \in ingests /\ g.kind = "files"
    /\ \A k \in DOMAIN g.results : g.results[k] # "pending"
    /\ LET finals == [k \in DOMAIN g.temps |-> FinalSource(g, k)]
           fulfilled == SelectSeqBy(finals,
                            {f \in Range(finals) : f.content # ErrorContent})
           indexed == SelectSeqBy(fulfilled,
                            {f \in Range(fulfilled) : f.content # ""})
       IN  /\ sources' = ReplaceSources(sources, finals)
           /\ chatMessages' = chatMessages \o
                 [k \in DOMAIN fulfilled |-> AnalysisMessage(fulfilled[k])]
           /\ vectorStore' = StoreAfterBegins(vectorStore, indexed)
           /\ upserts' = upserts \cup PendingUpserts(indexed)
    /\ isLoading' = FALSE
    /\ ingests' = ingests \ {g}
    /\ chatSessionRef' = NotedOnSession(chatSessionRef, TRUE)
    /\ turns' = NotedOnTurns(turns)
    /\ UNCHANGED <<ended, edits, calls, isStreaming, abortControllerRef, aborted,
                   nextSource, nextTurn, deleted>>

\* An addSourceFromUrl that does not look at the number of sources.
addSourceFromUrl_Uncapped(url) ==
    /\ isLoading' = TRUE
    /\ LET tempSource == [id |-> nextSource, name |-> url,
                          content |-> "Fetching...", generating |-> TRUE,
                          excluded |-> FALSE]
       IN  /\ sources' = Append(sources, tempSource)
           /\ ingests' = ingests \cup
                 {[kind |-> "url", temps |-> <<tempSource>>,
                   inputs |-> <<url>>, results |-> <<"pending">>]}
    /\ nextSource' = nextSource + 1
    /\ chatSessionRef' = NotedOnSession(chatSessionRef, TRUE)
    /\ turns' = NotedOnTurns(turns)
    /\ UNCHANGED <<ended, edits, storeVars, chatMessages, isStreaming, abortControllerRef,
                   aborted, nextTurn, deleted>>

\* addSourceFromUrl up to its first await.
addSourceFromUrl(url) ==
    /\ ~(Len(sources) >= MAX_SOURCES)
    /\ isLoading' = TRUE
    /\ LET tempSource == [id |-> nextSource, name |-> url,
                          content |-> "Fetching...", generating |-> TRUE,
                          excluded |-> FALSE]
       IN  /\ sources' = Append(sources, tempSource)
           /\ ingests' = ingests \cup
                 {[kind |-> "url", temps |-> <<tempSource>>,
                   inputs |-> <<url>>, results |-> <<"pending">>]}
    /\ nextSource' = nextSource + 1
    /\ chatSessionRef' = NotedOnSession(chatSessionRef, TRUE)
    /\ turns' = NotedOnTurns(turns)
    /\ UNCHANGED <<ended, edits, storeVars, chatMessages, isStreaming, abortControllerRef,
                   aborted, nextTurn, deleted>>

\* parseUrl and generateInitialAnalysis returned: the try block's rest.
UrlDone(g) ==
    /\ g \in ingests /\ g.kind = "url"
    /\ LET page == parseUrl(g.inputs[1])
           finalSource == [id |-> g.temps[1].id, name |-> page.name,
                           content |-> page.content, generating |-> FALSE,
                           excluded |-> FALSE]
           indexed == IF page.content # "" THEN <<finalSource>> ELSE <<>>
       IN  /\ sources' = ReplaceSources(sources, <<finalSource>>)
           /\ chatMessages' = Append(chatMessages, AnalysisMessage(finalSource))
           /\ vectorStore' = StoreAfterBegins(vectorStore, indexed)
           /\ upserts' = upserts \cup PendingUpserts(indexed)
    /\ isLoading' = FALSE
    /\ ingests' = ingests \ {g}
    /\ chatSessionRef' = NotedOnSession(chatSessionRef, TRUE)
    /\ turns' = NotedOnTurns(turns)
    /\ UNCHANGED <<ended, edits, calls, isStreaming, abortControllerRef, aborted,
                   nextSource, nextTurn, deleted>>

\* parseUrl threw: the catch block.
UrlFail(g) ==
    /\ g \in ingests /\ g.kind = "url"
    /\ sources' = [i \in DOMAIN sources |->
                      IF sources[i].id = g.temps[1].id
                      THEN [sources[i] EXCEPT !.name = "Error",
                                              !.content = ErrorContent,
                                              !.generating = FALSE]
                      ELSE sources[i]]
    /\ isLoading' = FALSE
    /\ ingests' = ingests \ {g}
    /\ chatSessionRef' = NotedOnSession(chatSessionRef, TRUE)
    /\ turns' = NotedOnTurns(turns)
    /\ UNCHANGED <<ended, edits, storeVars, chatMessages, isStreaming, abortControllerRef,
                   aborted, nextSource, nextTurn, deleted>>

\* A pending upsert of the hook (fire and forget) resolves or rejects; the
\* rejection is only logged.
HookUpsertDone(u) ==
    /\ EmbeddingsResolve(u)
    /\ UNCHANGED <<calls, hookVars>>

HookUpsertFail(u) ==
    /\ EmbeddingsReject(u)
    /\ UNCHANGED <<calls, hookVars>>

\* -------------------------------------------------------- the hook: turns
\* sendMessage up to its first await (generateEmbedding of the query).
sendMessage(message) ==
    LET activeSources == ActiveSources(sources)
        t == nextTurn
        userMessage == [id |-> <<"msg", t, 0>>, role |-> "user",
                        text |-> <<message>>, activeSourcesContext |-> <<>>]
        placeholderMessage == [id |-> <<"msg", t, 1>>, role |-> "model",
                               text |-> <<>>,
                               activeSourcesContext |-> activeSources]
    IN  /\ ~(message = "" \/ activeSources = <<>>)
        /\ isLoading' = TRUE
        /\ isStreaming' = TRUE
        /\ chatMessages' = chatMessages \o <<userMessage, placeholderMessage>>
        /\ abortControllerRef' = t
        /\ turns' = turns \cup
              {[id |-> t, message |-> message, modelMessageId |-> <<"msg", t, 1>>,
                activeSources |-> activeSources,
                noUserMessage |-> NoUserMessage(chatMessages),
                pc |-> "embedding", signal |-> Null, session |-> Null,
                fullText |-> <<>>, relevantChunks |-> <<>>,
                hDeleted |-> deleted,
                hStale |-> IF chatSessionRef.hChanged THEN chatSessionRef.id
                           ELSE Null,
                hCont |-> IF chatSessionRef.hClean THEN chatSessionRef.id
                          ELSE Null,
                hClean |-> TRUE]}
        /\ nextTurn' = nextTurn + 1
        /\ UNCHANGED <<ended, edits, storeVars, sources, chatSessionRef, aborted, ingests,
                       nextSource, deleted>>

\* The catch block of sendMessage: the placeholder gets the error text.
CatchText == ErrorText

\* History: turn t ended with this outcome.
Ended(t, outcome) ==
    ended' = ended \cup
        {[id |-> t.id, modelMessageId |-> t.modelMessageId, outcome |-> outcome]}

\* A finally block that forgets isLoading.
TurnFinally_KeepsLoading ==
    /\ isLoading' = isLoading
    /\ isStreaming' = FALSE
    /\ abortControllerRef' = Null

\* The finally block of sendMessage.
TurnFinally ==
    /\ isLoading' = FALSE
    /\ isStreaming' = FALSE
    /\ abortControllerRef' = Null

\* Whether sendMessage creates a session:
\* !chatSessionRef.current || chatMessages.filter(user).length === 0
NeedsNewSession(session, t) == session.id = Null \/ t.noUserMessage

\* createChatSessionWithRAG(relevantContext), named after the creating turn.
createChatSessionWithRAG(t, relevantContext) ==
    [id |-> t.id, relevantContext |-> relevantContext, history |-> <<>>,
     hChanged |-> FALSE, hClean |-> FALSE]

\* The session the turn talks to once line 291-294 has run.
SessionFor(t, relevantContext) ==
    IF NeedsNewSession(chatSessionRef, t)
    THEN createChatSessionWithRAG(t, relevantContext)
    ELSE chatSessionRef

\* chatSession.sendMessageStream(question): the question joins the history.
SentOn(session, t) ==
    [session EXCEPT !.history = Append(@, t.message),
                    !.hClean = @ \/ t.hClean]

\* The query embedding arrived: search, format, session, start of the stream.
\* Reading abortControllerRef.current.signal throws when the ref is null, and
\* a throwing search ends the turn the same way (catch, finally).
QueryEmbedded(t) ==
    /\ t \in turns /\ t.pc = "embedding"
    /\ LET ids == SourceIds(t.activeSources)
           q == EmbeddingOf(t.message)
           relevantChunks == searchRelevantChunks(q, TopK, ids, vectorStore)
           relevantContext == formatChunksForContext(relevantChunks)
       IN  IF searchThrows(q, ids, vectorStore)
           THEN /\ chatMessages' = SetMessageText(chatMessages, t.modelMessageId,
                                                  CatchText)
                /\ TurnFinally
                /\ turns' = turns \ {t}
                /\ Ended(t, "failed")
                /\ UNCHANGED chatSessionRef
           ELSE IF abortControllerRef = Null
           THEN /\ chatSessionRef' = SessionFor(t, relevantContext)
                /\ chatMessages' = SetMessageText(chatMessages, t.modelMessageId,
                                                  CatchText)
                /\ TurnFinally
                /\ turns' = turns \ {t}
                /\ Ended(t, "failed")
           ELSE /\ chatSessionRef' = SentOn(SessionFor(t, relevantContext), t)
                /\ turns' = (turns \ {t}) \cup
                      {[t EXCEPT !.pc = "streaming",
                                 !.signal = abortControllerRef,
                                 !.session = SessionFor(t, relevantContext).id,
                                 !.relevantChunks = relevantChunks]}
                /\ UNCHANGED <<chatMessages, isLoading, isStreaming,
                               abortControllerRef, ended>>
    /\ UNCHANGED <<edits, storeVars, sources, aborted, ingests, nextSource, nextTurn,
                   deleted>>

\* generateEmbedding threw: catch, finally.
QueryEmbedFail(t) ==
    /\ t \in turns /\ t.pc = "embedding"
    /\ chatMessages' = SetMessageText(chatMessages, t.modelMessageId, CatchText)
    /\ TurnFinally
    /\ turns' = turns \ {t}
    /\ Ended(t, "failed")
    /\ UNCHANGED <<edits, storeVars, sources, chatSessionRef, aborted, ingests,
                   nextSource, nextTurn, deleted>>

\* An accumulator that keeps the last increment only.
Accumulated_Delta(fullText, chunkText) == <<chunkText>>

\* fullText += chunkText
Accumulated(fullText, chunkText) == Append(fullText, chunkText)

\* for await: the next chunk arrives and the signal is not aborted:
\* fullText += chunkText; onChunk(fullText).
StreamIncrement(t) ==
    /\ t \in turns /\ t.pc = "streaming"
    /\ t.signal \notin aborted
    /\ Len(t.fullText) < MaxStream
    /\ LET fullText == Accumulated(t.fullText, Increment(Len(t.fullText) + 1))
       IN  /\ chatMessages' = SetMessageText(chatMessages, t.modelMessageId,
                                             fullText)
           /\ turns' = (turns \ {t}) \cup {[t EXCEPT !.fullText = fullText]}
    /\ UNCHANGED <<ended, edits, storeVars, sources, isLoading, isStreaming, chatSessionRef,
                   abortControllerRef, aborted, ingests, nextSource, nextTurn,
                   deleted>>

\* for await: the next chunk arrives and the signal is aborted: break,
\* return fullText, finally.
StreamBreak(t) ==
    /\ t \in turns /\ t.pc = "streaming"
    /\ t.signal \in aborted
    /\ TurnFinally
    /\ turns' = turns \ {t}
    /\ Ended(t, "cancelled")
    /\ UNCHANGED <<edits, storeVars, sources, chatMessages, chatSessionRef, aborted,
                   ingests, nextSource, nextTurn, deleted>>

\* The stream is exhausted: return fullText, finally.
StreamEnd(t) ==
    /\ t \in turns /\ t.pc = "streaming"
    /\ TurnFinally
    /\ turns' = turns \ {t}
    /\ Ended(t, IF t.signal \in aborted THEN "cancelled" ELSE "completed")
    /\ UNCHANGED <<edits, storeVars, sources, chatMessages, chatSessionRef, aborted,
                   ingests, nextSource, nextTurn, deleted>>

\* sendMessageStream or the stream throws: streamChatResponse rethrows,
\* sendMessage catches, finally.
StreamFail(t) ==
    /\ t \in turns /\ t.pc = "streaming"
    /\ chatMessages' = SetMessageText(chatMessages, t.modelMessageId, CatchText)
    /\ TurnFinally
    /\ turns' = turns \ {t}
    /\ Ended(t, "failed")
    /\ UNCHANGED <<edits, storeVars, sources, chatSessionRef, aborted, ingests,
                   nextSource, nextTurn, deleted>>

\* stopGenerating
stopGenerating ==
    /\ IF abortControllerRef # Null
       THEN /\ aborted' = aborted \cup {abortControllerRef}
            /\ isStreaming' = FALSE
            /\ isLoading' = FALSE
       ELSE UNCHANGED <<aborted, isStreaming, isLoading>>
    /\ UNCHANGED <<ended, storeVars, sources, chatMessages, chatSessionRef,
                   abortControllerRef, ingests, turns, nextSource, nextTurn,
                   deleted>>

\* ------------------------------------------- the hook: sources and clears
\* deleteSource
deleteSource(sourceId) ==
    /\ sources' = SelectSeqBy(sources, {x \in Range(sources) : x.id # sourceId})
    /\ vectorStore' = removeDocumentFromVectorStore(vectorStore, sourceId)
    /\ chatSessionRef' = NoSession
    /\ deleted' = deleted \cup {sourceId}
    /\ turns' = NotedOnTurns(turns)
    /\ UNCHANGED <<ended, upserts, calls, chatMessages, isLoading, isStreaming,
                   abortControllerRef, aborted, ingests, nextSource, nextTurn>>

\* A toggle that also drops the source's chunks from the store.
toggleSourceExclusion_Purging(sourceId) ==
    /\ sources' = [i \in DOMAIN sources |->
                      IF sources[i].id = sourceId
                      THEN [sources[i] EXCEPT !.excluded = ~@]
                      ELSE sources[i]]
    /\ vectorStore' = removeDocumentFromVectorStore(vectorStore, sourceId)
    /\ chatSessionRef' = NotedOnSession(chatSessionRef, TRUE)
    /\ turns' = NotedOnTurns(turns)
    /\ UNCHANGED <<ended, upserts, calls, chatMessages, isLoading, isStreaming,
                   abortControllerRef, aborted, ingests, nextSource, nextTurn,
                   deleted>>

\* toggleSourceExclusion
toggleSourceExclusion(sourceId) ==
    /\ sources' = [i \in DOMAIN sources |->
                      IF sources[i].id = sourceId
                      THEN [sources[i] EXCEPT !.excluded = ~@]
                      ELSE sources[i]]
    /\ chatSessionRef' = NotedOnSession(chatSessionRef, TRUE)
    /\ turns' = NotedOnTurns(turns)
    /\ UNCHANGED <<ended, storeVars, chatMessages, isLoading, isStreaming,
                   abortControllerRef, aborted, ingests, nextSource, nextTurn,
                   deleted>>

\* clearChat
clearChat ==
    /\ chatMessages' = <<>>
    /\ chatSessionRef' = NoSession
    /\ turns' = NotedOnTurns(turns)
    /\ UNCHANGED <<ended, storeVars, sources, isLoading, isStreaming,
                   abortControllerRef, aborted, ingests, nextSource, nextTurn,
                   deleted>>

\* clearWorkspace
clearWorkspace ==
    /\ sources' = <<>>
    /\ chatMessages' = <<>>
    /\ chatSessionRef' = NoSession
    /\ vectorStore' = clearVectorStore
    /\ deleted' = deleted \cup Range(SourceIds(sources))
    /\ turns' = NotedOnTurns(turns)
    /\ UNCHANGED <<ended, upserts, calls, isLoading, isStreaming, abortControllerRef,
                   aborted, ingests, nextSource, nextTurn>>

\* ---------------------------------------------------- the hook: synthesis
\* useState isSynthesizing: synthesizeNotes sets it before its await and
\* clears it in its finally, and the panels start no synthesis while it is
\* set, so it is true exactly while a synthesis is in flight.
isSynthesizing == \E g \in ingests : g.kind = "synth"

\* The isLoading the hook returns: isLoading || isSynthesizing.
ReturnedIsLoading == isLoading \/ isSynthesizing

SynthesisFormats == {"summary", "outline"}

\* sources.filter(s => !s.excluded)
NotExcluded(srcs) == SelectSeqBy(srcs, {x \in Range(srcs) : ~x.excluded})

\* synthesizeNotes up to its await (synthesize(context, format)).
synthesizeNotes(format) ==
    LET activeSources == NotExcluded(sources)
        userMessage == [id |-> <<"msg", nextTurn, 0>>, role |-> "user",
                        text |-> <<"Please generate " \o format>>,
                        activeSourcesContext |-> <<>>]
    IN  /\ activeSources # <<>>
        /\ chatMessages' = Append(chatMessages, userMessage)
        /\ ingests' = ingests \cup
              {[kind |-> "synth", id |-> nextTurn, format |-> format,
                activeSources |-> activeSources]}
        /\ nextTurn' = nextTurn + 1
        /\ UNCHANGED <<ended, edits, storeVars, sources, isLoading, isStreaming,
                       chatSessionRef, abortControllerRef, aborted, turns,
                       nextSource, deleted>>

\* The answer arrived: the model message is appended; finally.
SynthesisDone(g) ==
    /\ g \in ingests /\ g.kind = "synth"
    /\ chatMessages' = Append(chatMessages,
            [id |-> <<"msg", g.id, 1>>, role |-> "model",
             text |-> <<"answer " \o g.format>>,
             activeSourcesContext |-> g.activeSources])
    /\ ingests' = ingests \ {g}
    /\ UNCHANGED <<ended, edits, storeVars, sources, isLoading, isStreaming,
                   chatSessionRef, abortControllerRef, aborted, turns,
                   nextSource, nextTurn, deleted>>

\* synthesize threw: the error message is appended; finally.
SynthesisFail(g) ==
    /\ g \in ingests /\ g.kind = "synth"
    /\ chatMessages' = Append(chatMessages,
            [id |-> <<"msg", g.id, 1>>, role |-> "model",
             text |-> <<"Sorry, I encountered an error while generating the "
                        \o g.format>>,
             activeSourcesContext |-> <<>>])
    /\ ingests' = ingests \ {g}
    /\ UNCHANGED <<ended, edits, storeVars, sources, isLoading, isStreaming,
                   chatSessionRef, abortControllerRef, aborted, turns,
                   nextSource, nextTurn, deleted>>

\* ------------------------------------------------ the user interface gates
\* SourcePanel: the upload button and the URL form are disabled while
\* isLoading; handleFileChange repeats the cap.
UiAddFiles(files) ==
    /\ ~ReturnedIsLoading
    /\ ~(Len(sources) + Len(files) > MAX_SOURCES)
    /\ addSourcesFromFiles(files)

UiAddUrl(url) ==
    /\ ~ReturnedIsLoading
    /\ url # ""
    /\ addSourceFromUrl(url)

\* SourceItem: the toggle and delete buttons exist once the source is no
\* longer generating.
UiDelete(sourceId) ==
    /\ \E i \in DOMAIN sources : sources[i].id = sourceId /\ ~sources[i].generating
    /\ deleteSource(sourceId)

UiToggle(sourceId) ==
    /\ \E i \in DOMAIN sources : sources[i].id = sourceId /\ ~sources[i].generating
    /\ toggleSourceExclusion(sourceId)

\* ChatPanel.handleSubmit: input.trim() && !isLoading.
handleSubmit(input) ==
    /\ input # "" /\ ~ReturnedIsLoading
    /\ sendMessage(input)

\* ChatPanel: the Stop button replaces the send button while isStreaming.
UiStop ==
    /\ isStreaming
    /\ stopGenerating

\* ChatPanel: the synthesis buttons are disabled while isLoading or when
\* there is no source.
UiSynthesize(format) ==
    /\ ~ReturnedIsLoading /\ sources # <<>>
    /\ synthesizeNotes(format)

\* The Clear Chat button: disabled={chatMessages.length === 0}.
UiClearChat ==
    /\ chatMessages # <<>>
    /\ clearChat

\* The Clear Workspace button:
\* disabled={sources.length === 0 && chatMessages.length === 0}.
UiClearWorkspace ==
    /\ ~(sources = <<>> /\ chatMessages = <<>>)
    /\ clearWorkspace

\* Batches of distinct files the picker can deliver.
FileBatches ==
    {<<f>> : f \in Files} \cup
    {b \in Files \X Files : b[1].name = "a.txt" /\ b[2].name = "b.txt"}

\* ----------------------------------------- SpecStore: the store's client
ApiUpsert(sourceId, sourceName, content) ==
    /\ Len(calls) < MaxCalls
    /\ UpsertBegin(Len(calls) + 1, sourceId, sourceName, content)
    /\ calls' = Append(calls, [op |-> "upsert", sourceId |-> sourceId,
                               sourceName |-> sourceName, content |-> content,
                               outcome |-> "pending", pre |-> vectorStore])
    /\ UNCHANGED hookVars

ApiUpsertDone(u) ==
    /\ EmbeddingsResolve(u)
    /\ calls' = [calls EXCEPT ![u.call].outcome = "ok"]
    /\ UNCHANGED hookVars

ApiUpsertFail(u) ==
    /\ EmbeddingsReject(u)
    /\ calls' = [calls EXCEPT ![u.call].outcome = "failed"]
    /\ UNCHANGED hookVars

ApiRemove(sourceId) ==
    /\ Len(calls) < MaxCalls
    /\ vectorStore' = removeDocumentFromVectorStore(vectorStore, sourceId)
    /\ calls' = Append(calls, [op |-> "remove", sourceId |-> sourceId,
                               sourceName |-> None, content |-> None,
                               outcome |-> "ok", pre |-> vectorStore])
    /\ UNCHANGED <<upserts, hookVars>>

ApiClear ==
    /\ Len(calls) < MaxCalls
    /\ vectorStore' = clearVectorStore
    /\ calls' = Append(calls, [op |-> "clear", sourceId |-> None,
                               sourceName |-> None, content |-> None,
                               outcome |-> "ok", pre |-> vectorStore])
    /\ UNCHANGED <<upserts, hookVars>>

Init ==
    /\ vectorStore = <<>>
    /\ upserts = {}
    /\ calls = <<>>
    /\ sources = <<>>
    /\ chatMessages = <<>>
    /\ isLoading = FALSE
    /\ isStreaming = FALSE
    /\ chatSessionRef = NoSession
    /\ abortControllerRef = Null
    /\ aborted = {}
    /\ ingests = {}
    /\ turns = {}
    /\ nextSource = 1
    /\ nextTurn = 1
    /\ deleted = {}
    /\ ended = {}
    /\ edits = 0

NextStore ==
    \/ \E s \in StoreIds, n \in StoreNames, c \in Contents : ApiUpsert(s, n, c)
    \/ \E u \in upserts : ApiUpsertDone(u)
    \/ \E u \in upserts : ApiUpsertFail(u)
    \/ \E s \in StoreIds : ApiRemove(s)
    \/ ApiClear

SpecStore == Init /\ [][NextStore]_vars

\* The budgets that keep the state space finite.
SourceBudget(n) == nextSource + n - 1 <= MaxSources
EditBudget == edits < MaxEdits /\ edits' = edits + 1

\* What the environment does with the hook's pending work, in any order.
Completions ==
    \/ \E g \in ingests, k \in 1 .. MaxSources :
          \E st \in {"fulfilled", "rejected"} : FileProcessed(g, k, st)
    \/ \E g \in ingests : FilesDone(g)
    \/ \E g \in ingests : UrlDone(g)
    \/ \E g \in ingests : UrlFail(g)
    \/ \E u \in upserts : HookUpsertDone(u)
    \/ \E u \in upserts : HookUpsertFail(u)
    \/ \E t \in turns : QueryEmbedded(t)
    \/ \E t \in turns : QueryEmbedFail(t)
    \/ \E t \in turns : StreamIncrement(t)
    \/ \E t \in turns : StreamBreak(t)
    \/ \E t \in turns : StreamEnd(t)
    \/ \E t \in turns : StreamFail(t)

\* What the user does besides adding sources and asking.
Edits ==
    \/ EditBudget /\ UiStop
    \/ \E i \in 1 .. MaxSources : EditBudget /\ UiDelete(i)
    \/ \E i \in 1 .. MaxSources : EditBudget /\ UiToggle(i)
    \/ EditBudget /\ UiClearChat
    \/ EditBudget /\ UiClearWorkspace

Next ==
    \/ \E files \in FileBatches : SourceBudget(Len(files)) /\ UiAddFiles(files)
    \/ \E url \in Urls : SourceBudget(1) /\ UiAddUrl(url)
    \/ \E m \in Messages : nextTurn <= MaxTurns /\ handleSubmit(m)
    \/ Completions
    \/ Edits

Spec == Init /\ [][Next]_vars

\* ------------------------------------- SpecChat: a prepared workspace
\* The workspace after the batch <<a.txt, b.txt>> was added and indexed: two
\* ready sources, their chunks in the store, their analysis messages in the
\* chat.  The sources stay as they are added; the user asks, stops, toggles,
\* deletes and clears.
ChatSources ==
    <<[id |-> 1, name |-> "a.txt", content |-> "docA", generating |-> FALSE,
       excluded |-> FALSE],
      [id |-> 2, name |-> "b.txt", content |-> "docB", generating |-> FALSE,
       excluded |-> FALSE]>>

ChatInit ==
    /\ vectorStore =
          ChunkObjects(1, "a.txt", textChunksOf("docA"),
                       generateEmbeddingsBatch(textChunksOf("docA"))) \o
          ChunkObjects(2, "b.txt", textChunksOf("docB"),
                       generateEmbeddingsBatch(textChunksOf("docB")))
    /\ upserts = {}
    /\ calls = <<>>
    /\ sources = ChatSources
    /\ chatMessages = [k \in DOMAIN ChatSources |-> AnalysisMessage(ChatSources[k])]
    /\ isLoading = FALSE
    /\ isStreaming = FALSE
    /\ chatSessionRef = NoSession
    /\ abortControllerRef = Null
    /\ aborted = {}
    /\ ingests = {}
    /\ turns = {}
    /\ nextSource = 3
    /\ nextTurn = 1
    /\ deleted = {}
    /\ ended = {}
    /\ edits = 0

NextChat ==
    \/ \E m \in Messages : nextTurn <= MaxChatTurns /\ handleSubmit(m)
    \/ \E t \in turns : QueryEmbedded(t)
    \/ \E t \in turns : QueryEmbedFail(t)
    \/ \E t \in turns : StreamIncrement(t)
    \/ \E t \in turns : StreamBreak(t)
    \/ \E t \in turns : StreamEnd(t)
    \/ \E t \in turns : StreamFail(t)
    \/ Edits

SpecChat == ChatInit /\ [][NextChat]_vars

\* SpecChat where every embedding call and every stream returns or fails in
\* finite time: the awaits of sendMessage resume.
SpecChatLive ==
    /\ SpecChat
    /\ WF_vars(\E t \in turns : QueryEmbedFail(t) \/ QueryEmbedded(t))
    /\ WF_vars(\E t \in turns : StreamEnd(t) \/ StreamBreak(t) \/ StreamFail(t))

\* ------------------------------ SpecNotes: asking, synthesis and sources
\* The prepared workspace of SpecChat, where the user also asks for notes
\* and adds a page.
NextNotes ==
    \/ \E m \in Messages : nextTurn <= MaxNoteOps /\ handleSubmit(m)
    \/ \E f \in SynthesisFormats : nextTurn <= MaxNoteOps /\ UiSynthesize(f)
    \/ \E g \in ingests : SynthesisDone(g)
    \/ \E g \in ingests : SynthesisFail(g)
    \/ \E url \in Urls :
          /\ nextSource <= Len(ChatSources) + MaxHookAdds
          /\ UiAddUrl(url)
    \/ \E g \in ingests : UrlDone(g)
    \/ \E g \in ingests : UrlFail(g)
    \/ \E u \in upserts : HookUpsertDone(u)
    \/ \E u \in upserts : HookUpsertFail(u)
    \/ \E t \in turns : QueryEmbedded(t)
    \/ \E t \in turns : QueryEmbedFail(t)
    \/ \E t \in turns : StreamIncrement(t)
    \/ \E t \in turns : StreamBreak(t)
    \/ \E t \in turns : StreamEnd(t)
    \/ \E t \in turns : StreamFail(t)
    \/ Edits

SpecNotes == ChatInit /\ [][NextNotes]_vars

\* ------------------------------------- SpecHook: the hook's own contract
\* The operations the hook returns, called by an arbitrary presentation
\* layer on the prepared workspace: no panel gates them, each call comes from
\* its own event and sees the committed state.  edits counts the
\* stopGenerating calls.
StopBudget == edits < MaxStops /\ edits' = edits + 1

\* The source whose exclusion the client toggles.
HookToggleIds == {ChatSources[1].id}

NextHook ==
    \/ \E m \in Messages : nextTurn <= MaxTurns /\ sendMessage(m)
    \/ StopBudget /\ stopGenerating
    \/ \E i \in HookToggleIds :
          /\ \E k \in DOMAIN sources : sources[k].id = i
          /\ toggleSourceExclusion(i)
          /\ UNCHANGED edits
    \/ \E url \in Urls :
          /\ nextSource <= Len(ChatSources) + MaxHookAdds
          /\ addSourceFromUrl(url)
    \/ \E g \in ingests : UrlDone(g)
    \/ \E g \in ingests : UrlFail(g)
    \/ \E u \in upserts : HookUpsertDone(u)
    \/ \E u \in upserts : HookUpsertFail(u)
    \/ \E t \in turns : QueryEmbedded(t)
    \/ \E t \in turns : QueryEmbedFail(t)
    \/ \E t \in turns : StreamIncrement(t)
    \/ \E t \in turns : StreamBreak(t)
    \/ \E t \in turns : StreamEnd(t)
    \/ \E t \in turns : StreamFail(t)

SpecHook == ChatInit /\ [][NextHook]_vars

\* ------------------------------------ SpecCap: a workspace near the cap
\* The workspace holds CapStart ready sources (their indexing was rejected,
\* the chat was cleared).  The add and delete operations of the hook are
\* called by an arbitrary presentation layer, also while earlier additions
\* are still being processed; each call sees the committed state.
CapSources ==
    [i \in 1 .. CapStart |->
        [id |-> i, name |-> "a.txt", content |-> "docA", generating |-> FALSE,
         excluded |-> FALSE]]

CapInit ==
    /\ vectorStore = <<>>
    /\ upserts = {}
    /\ calls = <<>>
    /\ sources = CapSources
    /\ chatMessages = <<>>
    /\ isLoading = FALSE
    /\ isStreaming = FALSE
    /\ chatSessionRef = NoSession
    /\ abortControllerRef = Null
    /\ aborted = {}
    /\ ingests = {}
    /\ turns = {}
    /\ nextSource = CapStart + 1
    /\ nextTurn = 1
    /\ deleted = {}
    /\ ended = {}
    /\ edits = 0

CapBudget(n) == nextSource + n - 1 <= CapStart + MaxCapAdds

\* The sources a delete call names: an old one and the first added one.
CapDeleteIds == {1, CapStart + 1}

NextCap ==
    \/ \E files \in FileBatches :
          CapBudget(Len(files)) /\ addSourcesFromFiles(files)
    \/ \E url \in Urls : CapBudget(1) /\ addSourceFromUrl(url)
    \/ \E i \in CapDeleteIds :
          /\ edits < MaxCapDeletes /\ edits' = edits + 1
          /\ \E k \in DOMAIN sources : sources[k].id = i
          /\ deleteSource(i)
    \/ \E g \in ingests, k \in 1 .. MaxSources :
          \E st \in {"fulfilled", "rejected"} : FileProcessed(g, k, st)
    \/ \E g \in ingests : FilesDone(g)
    \/ \E g \in ingests : UrlDone(g)
    \/ \E g \in ingests : UrlFail(g)
    \/ \E u \in upserts : HookUpsertDone(u)
    \/ \E u \in upserts : HookUpsertFail(u)

SpecCap == CapInit /\ [][NextCap]_vars

\* Every parse and analysis call returns or throws, and the continuation of
\* an add operation runs once its promises are settled.
SpecCapLive ==
    /\ SpecCap
    /\ WF_vars(\E g \in ingests, k \in 1 .. MaxSources :
                  \E st \in {"fulfilled", "rejected"} : FileProcessed(g, k, st))
    /\ WF_vars(\E g \in ingests : FilesDone(g))
    /\ WF_vars(\E g \in ingests : UrlFail(g) \/ UrlDone(g))

\* ------------------------- SpecSearch: retrieval and formatting alone
\* searchRelevantChunks and formatChunksForContext called by an arbitrary
\* client on a store that holds the chunk sets of up to MaxDocs sources.
\* A chunk set is what addDocumentToVectorStore pushes for the texts of a
\* document; the provider's result for a text may lack its vector
\* (embedding?: number[]).  calls holds the last call with what it returned.
SearchDocs ==
    {[sourceId |-> "A", sourceName |-> "a.txt", texts |-> <<"a0">>],
     [sourceId |-> "B", sourceName |-> "b.txt", texts |-> <<"b0", "b1">>],
     [sourceId |-> "C", sourceName |-> "c.txt", texts |-> <<"c0">>],
     [sourceId |-> "D", sourceName |-> "d.txt", texts |-> <<"d0">>]}

\* The chunk without its vector.
WithoutEmbedding(chunk) == [f \in DOMAIN chunk \ {"embedding"} |-> chunk[f]]

\* The chunk sets a document can have in the store: every chunk embedded, or
\* the first one without a vector.
ChunkSetsOf(doc) ==
    LET full == ChunkObjects(doc.sourceId, doc.sourceName, doc.texts,
                             generateEmbeddingsBatch(doc.texts))
    IN  {full, [full EXCEPT ![1] = WithoutEmbedding(full[1])]}

\* The stores: chunk sets of distinct documents, one after the other.
SearchStores ==
    {<<>>} \cup
    UNION {ChunkSetsOf(d) : d \in SearchDocs} \cup
    UNION {{x \o y : x \in ChunkSetsOf(d[1]), y \in ChunkSetsOf(d[2])} :
              d \in {t \in SearchDocs \X SearchDocs : t[1] # t[2]}} \cup
    UNION {{x \o y \o z : x \in ChunkSetsOf(d[1]), y \in ChunkSetsOf(d[2]),
                          z \in ChunkSetsOf(d[3])} :
              d \in {t \in SearchDocs \X SearchDocs \X SearchDocs :
                        Cardinality({t[1], t[2], t[3]}) = 3}}

\* The sourceIds argument: left out, or an array of ids.
SearchFilters ==
    {[given |-> FALSE, ids |-> <<>>], [given |-> TRUE, ids |-> <<>>],
     [given |-> TRUE, ids |-> <<"A">>], [given |-> TRUE, ids |-> <<"B">>],
     [given |-> TRUE, ids |-> <<"C", "A">>]}

SearchInit ==
    /\ vectorStore \in SearchStores
    /\ upserts = {}
    /\ calls = <<>>
    /\ sources = <<>>
    /\ chatMessages = <<>>
    /\ isLoading = FALSE
    /\ isStreaming = FALSE
    /\ chatSessionRef = NoSession
    /\ abortControllerRef = Null
    /\ aborted = {}
    /\ ingests = {}
    /\ turns = {}
    /\ nextSource = 1
    /\ nextTurn = 1
    /\ deleted = {}
    /\ ended = {}
    /\ edits = 0

\* searchRelevantChunks(query, topK, sourceIds) on the store.
ApiSearch(query, topK, filter) ==
    /\ ~searchThrows(EmbeddingOf(query), filter.ids, vectorStore)
    /\ calls' = <<[op |-> "search", query |-> query, topK |-> topK,
                   filter |-> filter,
                   result |-> searchRelevantChunks(EmbeddingOf(query), topK,
                                                   filter.ids, vectorStore)]>>
    /\ UNCHANGED <<vectorStore, upserts, hookVars>>

\* formatChunksForContext(chunks) on the first n chunks of the last search's
\* result, or on those chunks in reverse order.
ApiFormat(n, reversed) ==
    /\ calls # <<>> /\ calls[1].op = "search"
    /\ n <= Len(calls[1].result)
    /\ LET head == SubSeq(calls[1].result, 1, n)
           input == IF reversed THEN [i \in 1 .. n |-> head[n + 1 - i]] ELSE head
       IN  calls' = <<[op |-> "format", input |-> input,
                      output |-> formatChunksForContext(input)]>>
    /\ UNCHANGED <<vectorStore, upserts, hookVars>>

\* searchRelevantChunks(query, topK, sourceIds) rejects: cosineSimilarity
\* threw inside the map over the searchable chunks.
ApiSearchFail(query, topK, filter) ==
    /\ searchThrows(EmbeddingOf(query), filter.ids, vectorStore)
    /\ calls' = <<[op |-> "searchFailed", query |-> query, topK |-> topK,
                   filter |-> filter]>>
    /\ UNCHANGED <<vectorStore, upserts, hookVars>>

\* The queries: two with vectors of the length the chunks of A, B and C
\* have, one with the length of D's.
SearchQueries == {"q1", "q2", "q3"}

NextSearch ==
    \/ \E q \in SearchQueries, k \in 0 .. MaxTopK, f \in SearchFilters :
          ApiSearch(q, k, f)
    \/ \E q \in SearchQueries, k \in 0 .. MaxTopK, f \in SearchFilters :
          ApiSearchFail(q, k, f)
    \/ \E n \in 0 .. MaxTopK, r \in BOOLEAN : ApiFormat(n, r)

SpecSearch == SearchInit /\ [][NextSearch]_vars

\* ===================================================== the chunker
\* chunkDocument(text, chunkSize, overlap) of ragService.ts.  A text is a
\* sequence of characters; calls holds the running call: its arguments, the
\* cleaned text, the loop variable start, the chunks pushed so far, the span
\* of cleanText each iteration sliced (spans), and where the call stands
\* (pc "while": at the loop test, "done": returned).
DefaultChunkSize == 1000
DefaultOverlap == 200
SentenceWindow == 100

Min(a, b) == IF a < b THEN a ELSE b
Max(a, b) == IF a > b THEN a ELSE b
Abs(a) == IF a < 0 THEN 0 - a ELSE a

\* \s of a JavaScript regular expression, on the characters of the texts.
IsWhitespace(c) == c \in {" ", "\n"}

\* text.replace(/\s\s+/g, ' '): every run of two or more whitespace characters
\* becomes one space; a whitespace character on its own stays as it is.
CollapseWhitespace(text) ==
    LET n == Len(text)
        marked == [i \in 1 .. n |->
                     IF ~IsWhitespace(text[i]) THEN text[i]
                     ELSE IF i > 1 /\ IsWhitespace(text[i - 1]) THEN ""
                     ELSE IF i < n /\ IsWhitespace(text[i + 1]) THEN " "
                     ELSE text[i]]
        Kept(c) == c # ""
    IN  SelectSeq(marked, Kept)

\* String.prototype.trim.
TrimOf(text) ==
    LET n == Len(text)
        solid == \E i \in 1 .. n : ~IsWhitespace(text[i])
        first == CHOOSE i \in 1 .. n :
                    ~IsWhitespace(text[i]) /\ \A j \in 1 .. i - 1 : IsWhitespace(text[j])
        last == CHOOSE i \in 1 .. n :
                    ~IsWhitespace(text[i]) /\ \A j \in i + 1 .. n : IsWhitespace(text[j])
    IN  IF solid THEN SubSeq(text, first, last) ELSE <<>>

\* trim of a string that is computed once, whatever expression gives it.
Trim(text) == CHOOSE trimmed \in {TrimOf(t) : t \in {text}} : TRUE

\* The offset String.prototype.slice makes of an argument: a negative one
\* counts from the end of the string, and both are held within the string.
SliceOffset(text, k) ==
    IF k < 0 THEN Max(Len(text) + k, 0) ELSE Min(k, Len(text))

\* text.slice(from, to), offsets from 0.
Slice(text, from, to) ==
    IF SliceOffset(text, from) >= SliceOffset(text, to) THEN <<>>
    ELSE SubSeq(text, SliceOffset(text, from) + 1, SliceOffset(text, to))

\* window.lastIndexOf(ending): the last offset the ending occurs at, or -1.
LastIndexOf(window, ending) ==
    LET found == {i \in 0 .. Len(window) - Len(ending) :
                     \A j \in 1 .. Len(ending) : window[i + j] = ending[j]}
    IN  IF found = {} THEN -1 ELSE CHOOSE i \in found : \A j \in found : i >= j

sentenceEndings ==
    <<<<".", " ">>, <<"!", " ">>, <<"?", " ">>,
      <<".", "\n">>, <<"!", "\n">>, <<"?", "\n">>>>

\* The forEach over sentenceEndings from ending k on: best is bestBreak with
\* bestDistance (infinite: no distance yet).
RECURSIVE BestBreakFrom(_, _, _, _)
BestBreakFrom(window, end, k, best) ==
    IF k > Len(sentenceEndings) THEN best.bestBreak
    ELSE LET index == LastIndexOf(window, sentenceEndings[k])
             absoluteIndex == end - SentenceWindow + index + Len(sentenceEndings[k])
             distance == Abs(absoluteIndex - end)
         IN  IF index # -1 /\ (best.infinite \/ distance < best.bestDistance)
             THEN BestBreakFrom(window, end, k + 1,
                                [bestBreak |-> absoluteIndex,
                                 bestDistance |-> distance, infinite |-> FALSE])
             ELSE BestBreakFrom(window, end, k + 1, best)

\* bestBreak of one iteration: -1 when no ending was taken.  The search
\* window is sliced once.
BestBreak(cleanText, end) ==
    CHOOSE bestBreak \in
        {BestBreakFrom(searchWindow, end, 1,
                       [bestBreak |-> -1, bestDistance |-> 0, infinite |-> TRUE]) :
            searchWindow \in {Slice(cleanText, end - SentenceWindow,
                                    end + SentenceWindow)}} : TRUE

\* end of the iteration that begins at start.
ChunkEnd(cleanText, start, chunkSize) ==
    LET end == start + chunkSize
    IN  IF end < Len(cleanText)
        THEN CHOOSE e \in {IF bestBreak # -1 THEN bestBreak ELSE end :
                              bestBreak \in {BestBreak(cleanText, end)}} : TRUE
        ELSE end

\* The texts: n characters "a", with ". " at the offsets of dots and "? " at
\* those of quests; a wide text has two spaces before it, a newline pair
\* after it and two spaces after every sentence mark.
ChunkText(n, dots, quests, wide) ==
    LET body == [i \in 1 .. n |->
                   IF (i - 1) \in dots THEN "."
                   ELSE IF (i - 1) \in quests THEN "?"
                   ELSE IF (i - 2) \in (dots \cup quests) THEN " "
                   ELSE IF wide /\ (i - 3) \in (dots \cup quests) THEN " "
                   ELSE "a"]
    IN  IF wide THEN <<" ", " ">> \o body \o <<"\n", "\n">> ELSE body

ChunkShapes ==
    {[n |-> 0, dots |-> {}, quests |-> {}],
     [n |-> 1, dots |-> {}, quests |-> {}],
     [n |-> 40, dots |-> {10}, quests |-> {}],
     [n |-> 120, dots |-> {80}, quests |-> {}],
     [n |-> 120, dots |-> {}, quests |-> {}],
     [n |-> 400, dots |-> {208}, quests |-> {}],
     [n |-> 400, dots |-> {60}, quests |-> {}],
     [n |-> 400, dots |-> {130}, quests |-> {160}],
     [n |-> 400, dots |-> {140, 230}, quests |-> {}],
     [n |-> 400, dots |-> {}, quests |-> {}],
     [n |-> 900, dots |-> {}, quests |-> {}],
     [n |-> 1300, dots |-> {950}, quests |-> {}],
     [n |-> 1300, dots |-> {1040}, quests |-> {960}]}

ChunkTexts ==
    {ChunkText(s.n, s.dots, s.quests, w) : s \in ChunkShapes, w \in BOOLEAN}

\* chunkSize and overlap: the defaults, and pairs on both sides of
\* overlap = chunkSize.
ChunkParams ==
    {[chunkSize |-> DefaultChunkSize, overlap |-> DefaultOverlap],
     [chunkSize |-> 150, overlap |-> 0],
     [chunkSize |-> 150, overlap |-> 100],
     [chunkSize |-> 50, overlap |-> 10],
     [chunkSize |-> 150, overlap |-> 150],
     [chunkSize |-> 150, overlap |-> 160]}

ChunkInit ==
    /\ vectorStore = <<>>
    /\ upserts = {}
    /\ calls = <<>>
    /\ sources = <<>>
    /\ chatMessages = <<>>
    /\ isLoading = FALSE
    /\ isStreaming = FALSE
    /\ chatSessionRef = NoSession
    /\ abortControllerRef = Null
    /\ aborted = {}
    /\ ingests = {}
    /\ turns = {}
    /\ nextSource = 1
    /\ nextTurn = 1
    /\ deleted = {}
    /\ ended = {}
    /\ edits = 0

Chunking == calls # <<>> /\ calls[1].op = "chunk"

\* chunkDocument is called: chunks = [], start = 0, the text is cleaned.
chunkDocument(text, chunkSize, overlap) ==
    /\ calls = <<>>
    /\ calls' = <<[op |-> "chunk", text |-> text, chunkSize |-> chunkSize,
                   overlap |-> overlap,
                   cleanText |-> Trim(CollapseWhitespace(text)),
                   start |-> 0, chunks |-> <<>>, spans |-> <<>>,
                   pc |-> "while"]>>
    /\ UNCHANGED <<vectorStore, upserts, hookVars>>

\* The call after one pass of the loop body that settled on end: the trimmed
\* slice is pushed when it is not empty, start moves to end - overlap, and
\* the loop is left when that start is not positive or is beyond the text.
ChunkPassTo(c, end) ==
    LET chunk == Trim(Slice(c.cleanText, c.start, end))
        start == end - c.overlap
    IN  [c EXCEPT
           !.chunks = IF Len(chunk) > 0 THEN Append(@, chunk) ELSE @,
           !.spans = Append(@, [from |-> SliceOffset(c.cleanText, c.start),
                                to |-> SliceOffset(c.cleanText, end),
                                end |-> end]),
           !.start = start,
           !.pc = IF start <= 0 \/ start >= Len(c.cleanText)
                  THEN "done" ELSE "while"]

\* One pass of the loop body.
ChunkPass(c) ==
    CHOOSE next \in {ChunkPassTo(c, end) :
                        end \in {ChunkEnd(c.cleanText, c.start, c.chunkSize)}} : TRUE

\* The loop test holds and the body runs once.
ChunkIterate ==
    /\ Chunking /\ calls[1].pc = "while"
    /\ calls[1].start < Len(calls[1].cleanText)
    /\ \E next \in {ChunkPass(calls[1])} : calls' = <<next>>
    /\ UNCHANGED <<vectorStore, upserts, hookVars>>

\* The loop test fails: return chunks.
ChunkReturn ==
    /\ Chunking /\ calls[1].pc = "while"
    /\ calls[1].start >= Len(calls[1].cleanText)
    /\ calls' = <<[calls[1] EXCEPT !.pc = "done"]>>
    /\ UNCHANGED <<vectorStore, upserts, hookVars>>

\* The passes a call is followed for.
ChunkBudget == Chunking /\ Len(calls[1].spans) < MaxPasses

NextChunk ==
    \/ \E text \in ChunkTexts, p \in ChunkParams :
          chunkDocument(text, p.chunkSize, p.overlap)
    \/ ChunkBudget /\ ChunkIterate
    \/ ChunkReturn

SpecChunk == ChunkInit /\ [][NextChunk]_vars

\* The loop runs on whenever it can: JavaScript runs a synchronous function
\* to its return.
SpecChunkLive ==
    SpecChunk /\ WF_vars(ChunkBudget /\ ChunkIterate) /\ WF_vars(ChunkReturn)

\* ===================================================== claims: the store
\* The store a serial execution of one call leaves: an upsert whose
\* embeddings arrive replaces the source's chunks, a failed one removes them.
SerialCall(store, c) ==
    CASE c.op = "upsert" /\ c.outcome = "ok" ->
            WithoutSource(store, c.sourceId) \o
            ChunkObjects(c.sourceId, c.sourceName, textChunksOf(c.content),
                         generateEmbeddingsBatch(textChunksOf(c.content)))
      [] c.op = "upsert" /\ c.outcome # "ok" -> WithoutSource(store, c.sourceId)
      [] c.op = "remove" -> WithoutSource(store, c.sourceId)
      [] OTHER -> <<>>

RECURSIVE SerialRun(_, _, _)
\* The calls of history h run one at a time in the order order[1], order[2], ...
SerialRun(store, h, order) ==
    IF order = <<>> THEN store
    ELSE SerialRun(SerialCall(store, h[Head(order)]), h, Tail(order))

SerialOutcomes ==
    {SerialRun(<<>>, calls, [i \in DOMAIN calls |-> p[i]]) :
        p \in Permutations(DOMAIN calls)}

\* The chunks of one source, in store order.
ChunksOf(chunks, sourceId) ==
    SelectSeqBy(chunks, {c \in Range(chunks) : c.sourceId = sourceId})

\* C1: when the embedding step of an upsert fails (and no other call changed
\* the store meanwhile), the store after the failed call is the store as it
\* was before the call, the chunks the source already had included.
C1_FailedUpsertRestoresStore ==
    [][\A u \in upserts :
          (/\ calls[u.call].outcome = "pending"
           /\ calls'[u.call].outcome = "failed"
           /\ vectorStore = WithoutSource(calls[u.call].pre, u.sourceId))
          => vectorStore' = calls[u.call].pre]_vars

\* C2: in every reachable state of the store each sourceId has one set of
\* chunks whose index values are exactly 0..n-1, without duplicate or gap.
C2_ContiguousIndexes ==
    \A sid \in {c.sourceId : c \in Range(vectorStore)} :
        LET cs == ChunksOf(vectorStore, sid)
        IN  /\ {cs[i].index : i \in DOMAIN cs} = 0 .. (Len(cs) - 1)
            /\ \A i, j \in DOMAIN cs : cs[i].index = cs[j].index => i = j

\* C4: once every call has returned, the store is one that some serial
\* (one call at a time) order of the same calls produces.
C4_Serializable ==
    upserts = {} => vectorStore \in SerialOutcomes

\* ====================================================== claims: the hook
\* C3: once a source was deleted (or the workspace cleared), the store holds
\* no chunk of it in any later state.
C3_NoChunkOfDeletedSource ==
    \A c \in Range(vectorStore) : c.sourceId \notin deleted

\* C5: every chunk a turn retrieves belongs to a source that was ready and
\* not excluded when the turn started, and to no source deleted before it.
C5_RetrievalOnlyFromActiveSources ==
    \A t \in turns : t.pc = "streaming" =>
        \A c \in Range(t.relevantChunks) :
            /\ \E i \in DOMAIN t.activeSources :
                  /\ t.activeSources[i].id = c.sourceId
                  /\ ~t.activeSources[i].excluded
                  /\ ~t.activeSources[i].generating
                  /\ t.activeSources[i].content # ErrorContent
            /\ c.sourceId \notin t.hDeleted

\* A turn retrieved chunks while the store also held chunks of a source
\* deleted before the turn started, and of a source excluded at its start.
C5_Witness_Deleted ==
    \E t \in turns :
        /\ t.pc = "streaming" /\ t.relevantChunks # <<>>
        /\ \E c \in Range(vectorStore) : c.sourceId \in t.hDeleted

\* C6: a turn sent after a change of the source set does not stream on the
\* session that was created before the change.
C6_ChangeInvalidatesSession ==
    \A t \in turns :
        (t.pc = "streaming" /\ t.hStale # Null) => t.session # t.hStale

\* C7: a turn sent while a session exists that has had a user turn, with no
\* change of the source set and no clear since, streams on that session.
C7_FollowUpKeepsSession ==
    \A t \in turns :
        (t.pc = "streaming" /\ t.hCont # Null) => t.session = t.hCont

\* C8: once a turn is cancelled after partial text arrived, its model message
\* keeps exactly the text accumulated at the cancellation, and the click that
\* cancels it leaves isStreaming false.
C8_CancelledTurnKeepsPartialText ==
    [][\A t \in turns :
          /\ (t.pc = "streaming" /\ t.signal \in aborted /\ t.fullText # <<>>)
             => \A i \in DOMAIN chatMessages' :
                   chatMessages'[i].id = t.modelMessageId
                   => chatMessages'[i].text = t.fullText
          /\ (t.pc = "streaming" /\ t.signal \notin aborted /\ t.signal \in aborted')
             => ~isStreaming']_vars

\* C9: at most one turn is in flight at any time.
C9_OneTurnInFlight == Cardinality(turns) <= 1

\* C10: when a turn fails, its model message gets the fixed error text,
\* isLoading and isStreaming are false, and no other message changes.
C10_FailureSetsErrorText ==
    [][\A t \in turns :
          (\E e \in ended' \ ended : e.id = t.id /\ e.outcome = "failed")
          => /\ Len(chatMessages') = Len(chatMessages)
             /\ \A i \in DOMAIN chatMessages :
                   IF chatMessages[i].id = t.modelMessageId
                   THEN chatMessages'[i] =
                            [chatMessages[i] EXCEPT !.text = ErrorText]
                   ELSE chatMessages'[i] = chatMessages[i]
             /\ ~isLoading' /\ ~isStreaming']_vars

\* A turn failed while the chat holds its message and older ones.
C10_Witness ==
    \E e \in ended :
        /\ e.outcome = "failed"
        /\ \E i \in DOMAIN chatMessages :
              /\ chatMessages[i].id = e.modelMessageId
              /\ chatMessages[i].text = ErrorText
              /\ i > 3

\* ================================== claims: retrieval and formatting alone
\* The last call, when it was a search / a format.
Searched == calls # <<>> /\ calls[1].op = "search"
Formatted == calls # <<>> /\ calls[1].op = "format"

\* The candidates the contract speaks of: the chunks of the store that carry
\* a vector and, when a filter is given, whose sourceId is in the filter.
Candidates(chunks, filter) ==
    SelectSeqBy(chunks,
        {c \in Range(chunks) :
            /\ HasEmbedding(c)
            /\ filter.given => c.sourceId \in Range(filter.ids)})

\* C14: no chunk returned by a search lacks an embedding.
C14_NoUnembeddedResult ==
    Searched => \A c \in Range(calls[1].result) : HasEmbedding(c)

\* C15: a search returns min(topK, number of candidates) chunks in descending
\* order of score, none of them scoring below a candidate it left out.
C15_TopKByScore ==
    Searched =>
        LET r == calls[1].result
            q == EmbeddingOf(calls[1].query)
            cand == Candidates(vectorStore, calls[1].filter)
            n == IF calls[1].topK < Len(cand) THEN calls[1].topK ELSE Len(cand)
        IN  /\ Len(r) = n
            /\ \A i, j \in DOMAIN r :
                  i < j => ~ScoreGreater(ScoreOf(q, r[j]), ScoreOf(q, r[i]))
            /\ \A c \in Range(cand) \ Range(r) : \A i \in DOMAIN r :
                  ~ScoreGreater(ScoreOf(q, c), ScoreOf(q, r[i]))

\* C16: with a filter given, the empty one included, every returned chunk
\* belongs to a source of the filter.
C16_ResultWithinFilter ==
    (Searched /\ calls[1].filter.given) =>
        \A c \in Range(calls[1].result) :
            c.sourceId \in Range(calls[1].filter.ids)

\* The input with the chunks at positions i and j exchanged.
Swapped(input, i, j) ==
    [k \in DOMAIN input |->
        IF k = i THEN input[j] ELSE IF k = j THEN input[i] ELSE input[k]]

\* C20: the formatter emits one block per distinct sourceId, numbered 1, 2, ...
\* in the order the sources are first met; a block holds its source's texts
\* in input order; exchanging two chunks of one source changes no number.
C20_BlocksInFirstSeenOrder ==
    Formatted =>
        LET input == calls[1].input
            output == calls[1].output
            idset == {input[i].sourceId : i \in DOMAIN input}
            First(sid) == CHOOSE i \in DOMAIN input :
                              /\ input[i].sourceId = sid
                              /\ \A j \in 1 .. (i - 1) : input[j].sourceId # sid
            Number(sid) ==
                1 + Cardinality({input[j].sourceId : j \in 1 .. (First(sid) - 1)})
        IN  /\ Len(output) = Cardinality(idset)
            /\ \A n \in DOMAIN output : output[n].sourceIndex = n
            /\ \A sid \in idset :
                  LET own == ChunksOf(input, sid)
                  IN  /\ output[Number(sid)].sourceName = own[1].sourceName
                      /\ output[Number(sid)].texts =
                             [k \in DOMAIN own |-> own[k].text]
            /\ \A i, j \in DOMAIN input :
                  input[i].sourceId = input[j].sourceId =>
                      LET other == formatChunksForContext(Swapped(input, i, j))
                      IN  /\ Len(other) = Len(output)
                          /\ \A n \in DOMAIN output :
                                /\ other[n].sourceIndex = output[n].sourceIndex
                                /\ other[n].sourceName = output[n].sourceName

\* A format call whose input holds a chunk of another source between two
\* chunks of one source.
C20_Witness ==
    /\ Formatted
    /\ \E i, j, k \in DOMAIN calls[1].input :
          /\ i < j /\ j < k
          /\ calls[1].input[i].sourceId = calls[1].input[k].sourceId
          /\ calls[1].input[j].sourceId # calls[1].input[i].sourceId
    /\ Len(calls[1].output) = 2

\* ============================================ claims: the hook's contract
\* C12: stopGenerating called with no turn in flight, or a second time on a
\* turn whose controller is already aborted, changes neither the messages,
\* the session, the controller, the abort state nor the flags.
C12_StopIsIdempotent ==
    [][(edits' # edits /\ (turns = {} \/ abortControllerRef \in aborted))
       => UNCHANGED <<chatMessages, chatSessionRef, abortControllerRef, aborted,
                      isLoading, isStreaming>>]_vars

\* A step that flips the excluded flag of a ready source.
ToggledInStep ==
    \E k \in DOMAIN sources :
        /\ k \in DOMAIN sources'
        /\ sources'[k].id = sources[k].id
        /\ ~sources[k].generating
        /\ sources'[k].excluded # sources[k].excluded

\* C17: a toggle leaves the store and the pending embedding calls as they
\* are, and the retrieval of a turn returns only chunks the store holds of the
\* sources that were ready and not excluded when the turn started, all of
\* them when they are at most TopK.
C17_ToggleKeepsStore ==
    [][/\ ToggledInStep => (vectorStore' = vectorStore /\ upserts' = upserts)
       /\ \A t \in turns : \A t2 \in turns' :
             (t2.id = t.id /\ t.pc = "embedding" /\ t2.pc = "streaming")
             => LET act == Range(SourceIds(t.activeSources))
                    own == {c \in Range(vectorStore) : c.sourceId \in act}
                IN  /\ Range(t2.relevantChunks) \subseteq own
                    /\ Cardinality(own) <= TopK
                       => Range(t2.relevantChunks) = own]_vars

\* A turn retrieves chunks of source 1 after an earlier turn had started
\* while source 1 was excluded.
C17_Witness ==
    \E t \in turns :
        /\ t.pc = "streaming"
        /\ \E c \in Range(t.relevantChunks) : c.sourceId = ChatSources[1].id
        /\ \E i \in DOMAIN chatMessages :
              /\ chatMessages[i].role = "model"
              /\ chatMessages[i].activeSourcesContext # <<>>
              /\ chatMessages[i].id[2] < t.id
              /\ \A k \in DOMAIN chatMessages[i].activeSourcesContext :
                    chatMessages[i].activeSourcesContext[k].id # ChatSources[1].id

\* ================================================= claims: the application
\* A source that is ready: ingested without error.
Ready(source) == ~source.generating /\ source.content # ErrorContent

\* C11: no sendMessage is accepted (no turn starts) while no source is both
\* not excluded and ready.
C11_NoTurnWithoutReadySource ==
    [][nextTurn' # nextTurn
       => \E i \in DOMAIN sources : ~sources[i].excluded /\ Ready(sources[i])]_vars

\* C13: for a turn that streams on the session it created, the n-th source
\* of the message's snapshot is the source the formatter numbered n.
C13_CitationResolvesToLabelledSource ==
    \A t \in turns :
        (t.pc = "streaming" /\ t.session = t.id) =>
            \A i \in DOMAIN chatMessages :
                chatMessages[i].id = t.modelMessageId =>
                    LET snapshot == chatMessages[i].activeSourcesContext
                        labelled == FirstSeenIds(t.relevantChunks, {})
                    IN  \A n \in DOMAIN labelled :
                            /\ n <= Len(snapshot)
                            /\ snapshot[n].id = labelled[n]

\* C19: when a batch of files completes with a failed file, the failed source
\* holds the error text, and each fulfilled sibling is ready with its own
\* content, has its analysis message and its upsert under way.
C19_FailureSparesSiblings ==
    [][\A g \in ingests :
          (/\ g.kind = "files"
           /\ \A h \in ingests' : h.temps # g.temps
           /\ \E k \in DOMAIN g.results : g.results[k] = "rejected")
          => \A k \in DOMAIN g.results :
                LET id == g.temps[k].id
                    here == {i \in DOMAIN sources' : sources'[i].id = id}
                IN  /\ (\E i \in DOMAIN sources : sources[i].id = id) => here # {}
                    /\ g.results[k] = "rejected" =>
                          \A i \in here : /\ sources'[i].content = ErrorContent
                                          /\ ~sources'[i].generating
                    /\ g.results[k] = "fulfilled" =>
                          /\ \A i \in here : /\ sources'[i].content = g.inputs[k]
                                             /\ ~sources'[i].generating
                          /\ \E i \in DOMAIN chatMessages' :
                                chatMessages'[i] = AnalysisMessage(g.temps[k])
                          /\ \E u \in upserts' :
                                /\ u.sourceId = id
                                /\ u.textChunks = textChunksOf(g.inputs[k])]_vars

\* A batch of two files, the first failed and the second processed, is about
\* to complete with both placeholders still among the sources.
C19_Witness ==
    \E g \in ingests :
        /\ g.kind = "files" /\ Len(g.results) = 2
        /\ g.results[1] = "rejected" /\ g.results[2] = "fulfilled"
        /\ \A k \in DOMAIN g.temps :
              \E i \in DOMAIN sources : sources[i].id = g.temps[k].id

\* C18: the number of sources never exceeds MAX_SOURCES, and every add that
\* is carried out (it takes fresh source ids) fitted under the cap when it
\* was called: an add that would exceed the cap does nothing.
C18_SourceCap ==
    [][/\ Len(sources') <= MAX_SOURCES
       /\ nextSource' # nextSource
          => Len(sources) + (nextSource' - nextSource) <= MAX_SOURCES]_vars

\* The workspace is full while an addition is still being processed, after a
\* delete made room for it.
C18_Witness ==
    /\ Len(sources) = MAX_SOURCES
    /\ ingests # {}
    /\ deleted # {}
    /\ nextSource > CapStart + 2

\* C25: a search in which a candidate chunk's embedding and the query's
\* embedding differ in length fails (cosineSimilarity throws) instead of
\* returning a ranking.
C25_LengthMismatchFailsSearch ==
    (calls # <<>> /\ calls[1].op \in {"search", "searchFailed"}
        /\ \E c \in Range(Candidates(vectorStore, calls[1].filter)) :
               Len(c.embedding) # Len(EmbeddingOf(calls[1].query)))
    => calls[1].op = "searchFailed"

\* A search with the short query vector failed over the longer vector of D
\* although the store also holds chunks whose vectors match the query.
C25_Witness ==
    /\ calls # <<>> /\ calls[1].op = "searchFailed" /\ calls[1].query = "q1"
    /\ \E c \in Range(Candidates(vectorStore, calls[1].filter)) :
          Len(c.embedding) > Len(EmbeddingOf("q1"))
    /\ \E c \in Range(Candidates(vectorStore, calls[1].filter)) :
          Len(c.embedding) = Len(EmbeddingOf("q1"))

\* ===================================================== claims: the chunker
\* C21: chunkDocument returns for every text and every chunkSize and overlap
\* with overlap < chunkSize, also when a sentence ending moves the end of a
\* chunk before start + chunkSize: the call reaches its return, and no pass
\* that stays in the loop takes start back to where an earlier pass of the
\* call began (the loop, which depends on start alone, would repeat for ever).
C21_ChunkTerminates ==
    /\ (Chunking /\ calls[1].overlap < calls[1].chunkSize)
           ~> (Chunking /\ calls[1].pc = "done")
    /\ [][(Chunking /\ calls[1].overlap < calls[1].chunkSize
           /\ Chunking' /\ calls'[1].pc = "while")
          => \A i \in DOMAIN calls'[1].spans :
                calls'[1].spans[i].from # calls'[1].start]_vars

\* C22: a text whose cleaned form is shorter than chunkSize gives exactly one
\* chunk.
C22_ShortTextOneChunk ==
    (Chunking /\ calls[1].pc = "done"
        /\ Len(calls[1].cleanText) < calls[1].chunkSize)
    => Len(calls[1].chunks) = 1

\* C23: a call with overlap >= chunkSize is rejected or has its overlap
\* brought below chunkSize before the loop, so every pass of its loop moves
\* start forward.
C23_OverlapCheckedBeforeLoop ==
    [][(Chunking /\ calls[1].overlap >= calls[1].chunkSize
        /\ Chunking' /\ calls'[1].spans # calls[1].spans)
       => calls'[1].start > calls[1].start]_vars

\* C24: with overlap < chunkSize the spans of the chunks a call returns
\* cover every offset of the cleaned text.
C24_SpansCoverText ==
    (Chunking /\ calls[1].pc = "done"
        /\ calls[1].overlap < calls[1].chunkSize)
    => \A p \in 0 .. Len(calls[1].cleanText) - 1 :
          \E i \in DOMAIN calls[1].spans :
              calls[1].spans[i].from <= p /\ p < calls[1].spans[i].to

\* ============================================ claims: sessions and turns
\* The turn t of this state begins to stream in this step.
StartsStreaming(t) ==
    /\ t \in turns /\ t.pc = "embedding"
    /\ \E u \in turns' : u.id = t.id /\ u.pc = "streaming"

\* C26: when a turn begins to stream, every text in the grounding context of
\* the session it streams on is a chunk of a source that was neither deleted
\* nor excluded when the turn started.
C26_GroundingOnlyFromActiveSources ==
    [][\A t \in turns :
          StartsStreaming(t) =>
              \A n \in DOMAIN chatSessionRef'.relevantContext :
                  LET block == chatSessionRef'.relevantContext[n]
                  IN  \A k \in DOMAIN block.texts :
                          \E i \in DOMAIN t.activeSources :
                              /\ t.activeSources[i].name = block.sourceName
                              /\ block.texts[k] \in
                                    Range(textChunksOf(t.activeSources[i].content))]_vars

\* C27: when a turn begins to stream, every chunk retrieved for its query is
\* in the grounding context of the session it streams on.
C27_RetrievalInSessionContext ==
    [][\A t \in turns :
          StartsStreaming(t) =>
              \A u \in turns' :
                  u.id = t.id =>
                      \A c \in Range(u.relevantChunks) :
                          \E n \in DOMAIN chatSessionRef'.relevantContext :
                              /\ chatSessionRef'.relevantContext[n].sourceName
                                    = c.sourceName
                              /\ c.text \in
                                    Range(chatSessionRef'.relevantContext[n].texts)]_vars

\* C28: the controller in abortControllerRef is the one of every turn in
\* flight that has not been cancelled, so that stopGenerating reaches that
\* turn, and the ref is set back to null only in the step in which the turn
\* it was created for ends.
C28_TokenBelongsToTurnInFlight ==
    [][/\ \A t \in turns' : t.id \notin aborted' => abortControllerRef' = t.id
       /\ (abortControllerRef # Null /\ abortControllerRef' = Null)
          => \E e \in ended' \ ended : e.id = abortControllerRef]_vars

\* C29: isStreaming is true while a turn that was not cancelled is in flight,
\* and isLoading is true while any turn or any ingestion is in flight.
C29_FlagsCoverOperationsInFlight ==
    /\ (\E t \in turns : t.id \notin aborted) => isStreaming
    /\ (turns # {} \/ \E g \in ingests : g.kind # "synth") => isLoading

\* C30: once sendMessage has returned for a turn (completed, failed or
\* cancelled), no step changes the text or the sources snapshot of the turn's
\* model message; the message leaves the chat only when clearChat or
\* clearWorkspace empties the chat and drops the session.
C30_EndedMessageIsImmutable ==
    [][\A e \in ended : \A i \in DOMAIN chatMessages :
          chatMessages[i].id = e.modelMessageId =>
              \/ \E j \in DOMAIN chatMessages' : chatMessages'[j] = chatMessages[i]
              \/ chatMessages' = <<>> /\ chatSessionRef'.id = Null]_vars

\* The message of a completed turn is still in the chat, with its streamed
\* text, after a synthesis answered, a later turn ended and a source of its
\* snapshot was excluded or deleted.
C30_Witness ==
    \E e \in ended : \E i \in DOMAIN chatMessages :
        /\ e.outcome = "completed"
        /\ chatMessages[i].id = e.modelMessageId
        /\ chatMessages[i].text # <<>>
        /\ \E j \in DOMAIN chatMessages :
              /\ j > i
              /\ chatMessages[j].role = "model"
              /\ chatMessages[j].text \in {<<"answer " \o f>> : f \in SynthesisFormats}
        /\ \E e2 \in ended : e2.id > e.id
        /\ \E k \in DOMAIN chatMessages[i].activeSourcesContext :
              chatMessages[i].activeSourcesContext[k] \notin Range(sources)

\* s is a prefix of t.
IsPrefix(s, t) == Len(s) <= Len(t) /\ SubSeq(t, 1, Len(s)) = s

\* C31: a streamed increment of a turn sets the text of that turn's model
\* message to the cumulative text, of which the text shown before is a
\* prefix, and changes no other message and no source.
C31_IncrementReplacesOwnText ==
    [][\A t \in turns : \A u \in turns' :
          (u.id = t.id /\ u.fullText # t.fullText) =>
              /\ IsPrefix(t.fullText, u.fullText)
              /\ sources' = sources
              /\ Len(chatMessages') = Len(chatMessages)
              /\ \A i \in DOMAIN chatMessages :
                    IF chatMessages[i].id = t.modelMessageId
                    THEN /\ IsPrefix(chatMessages[i].text, u.fullText)
                         /\ chatMessages'[i] =
                               [chatMessages[i] EXCEPT !.text = u.fullText]
                    ELSE chatMessages'[i] = chatMessages[i]]_vars

\* A turn's message holds two increments while the chat also holds the
\* message of a turn that ended before.
C31_Witness ==
    \E t \in turns : \E i, j \in DOMAIN chatMessages :
        /\ t.pc = "streaming" /\ Len(t.fullText) >= 2
        /\ chatMessages[i].id = t.modelMessageId
        /\ chatMessages[i].text = t.fullText
        /\ \E e \in ended : chatMessages[j].id = e.modelMessageId
        /\ chatMessages[j].text # <<>>

\* C32: every turn that is started ends, and the step that ends it leaves
\* isLoading false, isStreaming false and abortControllerRef null, whether
\* the turn completed, failed or was cancelled.
C32_TurnEndsAndReleases ==
    /\ \A k \in 1 .. MaxChatTurns :
          (\E t \in turns : t.id = k) ~> (\E e \in ended : e.id = k)
    /\ [][ended' # ended
          => ~isLoading' /\ ~isStreaming' /\ abortControllerRef' = Null]_vars

\* Three turns have ended, one completed, one failed and one cancelled, and
\* nothing is in flight.
C32_Witness ==
    /\ turns = {}
    /\ {e.outcome : e \in ended} = {"completed", "failed", "cancelled"}
    /\ ~isLoading /\ ~isStreaming /\ abortControllerRef = Null

\* ============================================= claims: sources and clears
\* C33: the store holds the complete chunk set of every source that is ready.
C33_ReadySourceIsIndexed ==
    \A i \in DOMAIN sources :
        Ready(sources[i]) =>
            ChunksOf(vectorStore, sources[i].id) =
                ChunkObjects(sources[i].id, sources[i].name,
                             textChunksOf(sources[i].content),
                             generateEmbeddingsBatch(textChunksOf(sources[i].content)))

\* The ids of the sources in the list, as a set.
IdsIn(srcs) == {srcs[i].id : i \in DOMAIN srcs}

Ingesting(srcs, id) == \E i \in DOMAIN srcs : srcs[i].id = id /\ srcs[i].generating

\* C34: a source enters the list ingesting and under a fresh id; unless it is
\* deleted it comes to rest (ready or error); a source at rest stays as it
\* is, a source keeps its id and its place in the order, and no id that was
\* in the list before comes back.
C34_SourceLifecycle ==
    /\ \A id \in CapStart + 1 .. CapStart + MaxCapAdds :
          Ingesting(sources, id)
              ~> (id \notin IdsIn(sources) \/ ~Ingesting(sources, id))
    /\ [][
          /\ \A j \in DOMAIN sources' :
               (sources'[j].id \notin IdsIn(sources)
                   => sources'[j].generating /\ sources'[j].id >= nextSource)
          /\ \A i \in DOMAIN sources, m \in DOMAIN sources' :
               (sources'[m].id = sources[i].id /\ ~sources[i].generating
                   => /\ ~sources'[m].generating
                      /\ sources'[m].content = sources[i].content)
          /\ (Len(sources') >= Len(sources)
                   => \A n \in DOMAIN sources : sources'[n].id = sources[n].id)
          ]_vars

\* An added source was deleted while its batch was being processed, the
\* batch is settled and about to finish, and a later source came to rest.
C34_Witness ==
    /\ \E g \in ingests :
          /\ \A k \in DOMAIN g.results : g.results[k] # "pending"
          /\ \E k \in DOMAIN g.temps :
                g.temps[k].id \in deleted /\ g.temps[k].id \notin IdsIn(sources)
    /\ \E i \in DOMAIN sources : sources[i].id > CapStart /\ ~sources[i].generating

\* The ids of the messages in the chat.
MessageIdsIn(msgs) == {msgs[i].id : i \in DOMAIN msgs}

\* C35: Clear Chat empties the chat and drops the session and leaves the
\* sources and the store alone; Clear Workspace empties the sources, the
\* chat and the store and drops the session; a message of a turn in flight
\* that is gone from the chat stays gone, and only a new turn makes the chat
\* longer.
C35_ClearsAndTheirFrame ==
    [][
       /\ (UiClearChat
             => /\ chatMessages' = <<>> /\ chatSessionRef'.id = Null
                /\ sources' = sources /\ vectorStore' = vectorStore)
       /\ (UiClearWorkspace
             => /\ chatMessages' = <<>> /\ chatSessionRef'.id = Null
                /\ sources' = <<>> /\ vectorStore' = <<>>)
       /\ \A t \in turns :
             (t.modelMessageId \notin MessageIdsIn(chatMessages)
                 => t.modelMessageId \notin MessageIdsIn(chatMessages'))
       /\ (nextTurn' = nextTurn => Len(chatMessages') <= Len(chatMessages))
      ]_vars

\* The chat was cleared while a follow-up turn waited for its retrieval (the
\* turn had to create its session), the sources are still there, and the
\* turn has streamed increments since.
C35_Witness ==
    /\ chatMessages = <<>> /\ sources # <<>>
    /\ \E t \in turns :
          ~t.noUserMessage /\ t.session = t.id /\ t.fullText # <<>>

\* ==================================== SpecBatch: the embedding batches
\* addDocumentToVectorStore with generateEmbeddingsBatch run call by call.
\* A client upserts the chunk texts chunkDocument returned for a document.
\* upserts holds the running calls: the loop variable i, the embeddings
\* pushed so far, the provider calls in flight (inflight, by text number)
\* and the values of the resolved ones (results); pc is "await" at the
\* Promise.all and "rejected" once the call has thrown while provider calls
\* are still out.  calls holds the finished upserts in the order they end.
batchSize == 10
MaxBatchUpserts == 2
MaxRunningTexts == 22

BatchSourceIds == {"A", "B"}

\* Texts with pairwise different vectors.
BatchTextPool == <<"a0", "b0", "b1", "c0", "q1", "q2", "d0", "q3">>

\* The chunk texts of a document of n chunks.
TextsOfLength(n) ==
    [k \in 1 .. n |-> BatchTextPool[((k - 1) % Len(BatchTextPool)) + 1]]

\* No text, one, two full sub-batches, and one text more than that.
BatchLengths == {0, 1, 2 * batchSize, 2 * batchSize + 1}

\* ai.models.embedContent({model, content: text}) resolved:
\* r.embedding.values
embedContent(text) == EmbeddingOf(text)

\* A loop that issues every remaining call at once.
SubBatch_Rest(texts, i) == (i + 1) .. Len(texts)

\* texts.slice(i, i + batchSize), as the numbers of its texts.
SubBatch(texts, i) == (i + 1) .. Min(i + batchSize, Len(texts))

\* The values in the order the calls settled in: here the last text first.
SubBatchValues_Reversed(texts, i, results) ==
    LET n == Cardinality(SubBatch(texts, i))
    IN  [k \in 1 .. n |-> results[i + n + 1 - k]]

\* results.map(r => r.embedding.values): Promise.all keeps the order of the
\* promises it was given.
SubBatchValues(texts, i, results) ==
    [k \in 1 .. Cardinality(SubBatch(texts, i)) |-> results[i + k]]

\* An upsert that pushes the chunks it has vectors for when it fails.
UpsertRejected_Partial(store, u) ==
    store \o ChunkObjects(u.sourceId, u.sourceName,
                          SubSeq(u.textChunks, 1, Len(u.embeddings)),
                          u.embeddings)

\* generateEmbeddingsBatch threw (catch, throw new Error): the await of
\* addDocumentToVectorStore throws and the push is not reached.
UpsertRejected(store, u) == store

\* The record of a finished upsert.
Finished(u, outcome) ==
    [op |-> "upsert", call |-> u.call, sourceId |-> u.sourceId,
     sourceName |-> u.sourceName, textChunks |-> u.textChunks,
     outcome |-> outcome]

\* The upserts begun so far: the finished ones and those at their await.
BatchStarted == Len(calls) + Cardinality({u \in upserts : u.pc = "await"})

\* addDocumentToVectorStore(sourceId, sourceName, content) up to the first
\* Promise.all, textChunks being chunkDocument(content); with no chunk the
\* loop is not entered and the call pushes nothing.
addDocumentToVectorStore(sourceId, sourceName, textChunks) ==
    LET u == [call |-> BatchStarted + 1,
              sourceId |-> sourceId, sourceName |-> sourceName,
              textChunks |-> textChunks, i |-> 0, embeddings |-> <<>>,
              inflight |-> SubBatch(textChunks, 0), results |-> <<>>,
              pc |-> "await"]
    IN  /\ vectorStore' = WithoutSource(vectorStore, sourceId)
        /\ IF textChunks = <<>>
           THEN /\ calls' = Append(calls, Finished(u, "fulfilled"))
                /\ UNCHANGED upserts
           ELSE /\ upserts' = upserts \cup {u}
                /\ UNCHANGED calls
        /\ UNCHANGED hookVars

\* The provider call for text n resolves.  When it is the last one of its
\* sub-batch, Promise.all resolves: the values are pushed, and either the
\* next sub-batch is issued or generateEmbeddingsBatch returns and
\* addDocumentToVectorStore builds and pushes the chunk objects.
ProviderResolve(u, n) ==
    /\ u \in upserts /\ u.pc = "await" /\ n \in u.inflight
    /\ LET results == [m \in DOMAIN u.results \cup {n} |->
                          IF m = n THEN embedContent(u.textChunks[n])
                          ELSE u.results[m]]
           inflight == u.inflight \ {n}
           embeddings == u.embeddings \o SubBatchValues(u.textChunks, u.i, results)
           i == u.i + batchSize
       IN  IF inflight # {}
           THEN /\ upserts' = (upserts \ {u}) \cup
                      {[u EXCEPT !.results = results, !.inflight = inflight]}
                /\ UNCHANGED <<vectorStore, calls>>
           ELSE IF i < Len(u.textChunks)
           THEN /\ upserts' = (upserts \ {u}) \cup
                      {[u EXCEPT !.i = i, !.embeddings = embeddings,
                                 !.inflight = SubBatch(u.textChunks, i),
                                 !.results = <<>>]}
                /\ UNCHANGED <<vectorStore, calls>>
           ELSE /\ vectorStore' = vectorStore \o
                      ChunkObjects(u.sourceId, u.sourceName, u.textChunks,
                                   embeddings)
                /\ upserts' = upserts \ {u}
                /\ calls' = Append(calls, Finished(u, "fulfilled"))
    /\ UNCHANGED hookVars

\* The provider call for text n rejects: Promise.all rejects, the catch
\* block throws and addDocumentToVectorStore rejects.  The other calls of
\* the sub-batch stay out.
ProviderReject(u, n) ==
    /\ u \in upserts /\ u.pc = "await" /\ n \in u.inflight
    /\ vectorStore' = UpsertRejected(vectorStore, u)
    /\ calls' = Append(calls, Finished(u, "rejected"))
    /\ upserts' = (upserts \ {u}) \cup
          (IF u.inflight = {n} THEN {}
           ELSE {[u EXCEPT !.pc = "rejected", !.inflight = @ \ {n},
                           !.results = <<>>]})
    /\ UNCHANGED hookVars

\* The calls a rejected upsert left out settle; nothing awaits them.
ProviderSettleLate(u) ==
    /\ u \in upserts /\ u.pc = "rejected"
    /\ upserts' = upserts \ {u}
    /\ UNCHANGED <<vectorStore, calls, hookVars>>

\* The texts of the upserts that run, taken together.
RECURSIVE RunningTexts(_)
RunningTexts(us) ==
    IF us = {} THEN 0
    ELSE LET u == CHOOSE x \in us : TRUE
         IN  Len(u.textChunks) + RunningTexts(us \ {u})

BatchInit ==
    /\ vectorStore = <<>>
    /\ upserts = {}
    /\ calls = <<>>
    /\ sources = <<>>
    /\ chatMessages = <<>>
    /\ isLoading = FALSE
    /\ isStreaming = FALSE
    /\ chatSessionRef = NoSession
    /\ abortControllerRef = Null
    /\ aborted = {}
    /\ ingests = {}
    /\ turns = {}
    /\ nextSource = 1
    /\ nextTurn = 1
    /\ deleted = {}
    /\ ended = {}
    /\ edits = 0

\* A source is upserted again only when its earlier upsert has ended.
NextBatch ==
    \/ \E sid \in BatchSourceIds, n \in BatchLengths :
          /\ BatchStarted < MaxBatchUpserts
          /\ \A u \in upserts : u.sourceId # sid
          /\ RunningTexts(upserts) + n <= MaxRunningTexts
          /\ addDocumentToVectorStore(sid, "doc.txt", TextsOfLength(n))
    \/ \E u \in upserts : \E n \in u.inflight : ProviderResolve(u, n)
    \/ \E u \in upserts : \E n \in u.inflight : ProviderReject(u, n)
    \/ \E u \in upserts : ProviderSettleLate(u)

SpecBatch == BatchInit /\ [][NextBatch]_vars

\* ================================================ claims: ties, batches
\* Two chunks get the same score for the query.
SameScore(q, c, d) ==
    /\ ~ScoreGreater(ScoreOf(q, c), ScoreOf(q, d))
    /\ ~ScoreGreater(ScoreOf(q, d), ScoreOf(q, c))

\* The place of a chunk in the store.
PlaceInStore(c) == CHOOSE i \in DOMAIN vectorStore : vectorStore[i] = c

\* C36: chunks of equal score are returned in the order they have in the
\* store, and a chunk left out by topK stands in the store behind every
\* returned chunk of its score.
C36_TiesInInsertionOrder ==
    Searched =>
        LET r == calls[1].result
            q == EmbeddingOf(calls[1].query)
            ranked == SearchableChunks(vectorStore, calls[1].filter.ids)
        IN  /\ \A i, j \in DOMAIN r :
                  (i < j /\ SameScore(q, r[i], r[j]))
                      => PlaceInStore(r[i]) < PlaceInStore(r[j])
            /\ \A c \in Range(ranked) \ Range(r) : \A i \in DOMAIN r :
                  SameScore(q, r[i], c) => PlaceInStore(r[i]) < PlaceInStore(c)

\* A search returned two chunks of equal score and left out a third one of
\* that score.
C36_Witness ==
    /\ Searched
    /\ LET r == calls[1].result
           q == EmbeddingOf(calls[1].query)
           ranked == SearchableChunks(vectorStore, calls[1].filter.ids)
       IN  \E i, j \in DOMAIN r :
              /\ i < j /\ SameScore(q, r[i], r[j])
              /\ \E c \in Range(ranked) \ Range(r) : SameScore(q, r[j], c)

\* The finished upserts of a source, and the last of them.
FinishedFor(sid) == SelectSeq(calls, LAMBDA h : h.sourceId = sid)

Running(sid) == \E u \in upserts : u.sourceId = sid /\ u.pc = "await"

\* The chunk objects an upsert of these texts is to leave in the store.
WholeChunkSet(h) ==
    ChunkObjects(h.sourceId, h.sourceName, h.textChunks,
                 [k \in DOMAIN h.textChunks |-> embedContent(h.textChunks[k])])

\* C37: the vectors a running embedBatch has collected are those of its
\* first texts, one each and in input order; after a successful upsert the
\* store holds one chunk per text, chunk i with text i and the vector
\* computed for text i.
C37_OneVectorPerTextInOrder ==
    /\ \A u \in upserts :
          u.pc = "await" =>
              /\ Len(u.embeddings) = u.i
              /\ \A k \in 1 .. u.i :
                    u.embeddings[k] = embedContent(u.textChunks[k])
    /\ \A sid \in BatchSourceIds :
          LET done == FinishedFor(sid)
              stored == ChunksOf(vectorStore, sid)
          IN  (done # <<>> /\ done[Len(done)].outcome = "fulfilled"
                   /\ ~Running(sid))
                  => /\ Len(stored) = Len(done[Len(done)].textChunks)
                     /\ \A k \in DOMAIN stored :
                           /\ stored[k].index = k - 1
                           /\ stored[k].text = done[Len(done)].textChunks[k]
                           /\ stored[k].embedding =
                                  embedContent(done[Len(done)].textChunks[k])

\* An upsert of more than two sub-batches succeeded and its chunks are in
\* the store.
C37_Witness ==
    \E k \in DOMAIN calls :
        /\ calls[k].outcome = "fulfilled"
        /\ Len(calls[k].textChunks) > 2 * batchSize
        /\ Len(ChunksOf(vectorStore, calls[k].sourceId)) = Len(calls[k].textChunks)

\* C38: the calls in flight of an embedBatch call belong to one sub-batch
\* and are at most batchSize; when calls are issued, no earlier call of that
\* embedBatch is in flight and every earlier text has its vector.
C38_SubBatchesInSequence ==
    /\ [](\A u \in upserts :
            /\ Cardinality(u.inflight) <= batchSize
            /\ u.inflight \subseteq (u.i + 1) .. (u.i + batchSize))
    /\ [][\A u \in upserts, v \in upserts' :
             (v.call = u.call /\ v.inflight \ u.inflight # {})
                 => /\ v.inflight \cap u.inflight = {}
                    /\ Cardinality(u.inflight) = 1
                    /\ \A n \in v.inflight : Len(v.embeddings) < n
                    /\ \A n \in v.inflight :
                          \A m \in 1 .. (n - 1) :
                              m \in v.inflight \/ m <= Len(v.embeddings)
          ]_vars

\* The second sub-batch of an embedBatch call is out, all of its calls in
\* flight.
C38_Witness ==
    \E u \in upserts :
        /\ u.pc = "await" /\ u.i = batchSize
        /\ Cardinality(u.inflight) = batchSize

\* C39: the chunks of a source in the store are none or the whole set of a
\* successful upsert of that source, none when its last upsert failed, and
\* the step in which an upsert fails leaves the store as it is.
C39_FailedUpsertInsertsNothing ==
    /\ [](\A sid \in BatchSourceIds :
            LET done == FinishedFor(sid)
                stored == ChunksOf(vectorStore, sid)
            IN  /\ \/ stored = <<>>
                   \/ \E k \in DOMAIN done :
                         /\ done[k].outcome = "fulfilled"
                         /\ stored = WholeChunkSet(done[k])
                /\ (done # <<>> /\ done[Len(done)].outcome = "rejected")
                       => stored = <<>>)
    /\ [][(Len(calls') > Len(calls)
             /\ calls'[Len(calls')].outcome = "rejected")
               => vectorStore' = vectorStore]_vars

\* An upsert failed in its second sub-batch, with the vectors of the first
\* sub-batch collected, and the store holds no chunk of its source.
C39_Witness ==
    \E u \in upserts :
        /\ u.pc = "rejected" /\ u.i = batchSize
        /\ Len(u.embeddings) = batchSize
        /\ ChunksOf(vectorStore, u.sourceId) = <<>>

\* ================================================= claims: sentence breaks
\* start of pass k of the call.
PassStart(c, k) == IF k = 1 THEN 0 ELSE c.spans[k - 1].end - c.overlap

\* Every place of the ending in the window.
IndexesOf(window, ending) ==
    {i \in 0 .. Len(window) - Len(ending) :
        \A j \in 1 .. Len(ending) : window[i + j] = ending[j]}

\* The positions just behind the sentence endings found in the search
\* window around end.
TerminatorBoundaries(cleanText, end) ==
    LET searchWindow == Slice(cleanText, end - SentenceWindow, end + SentenceWindow)
    IN  UNION {{end - SentenceWindow + i + Len(sentenceEndings[k]) :
                   i \in IndexesOf(searchWindow, sentenceEndings[k])} :
               k \in DOMAIN sentenceEndings}

\* C40: a pass whose tentative end lies before the end of the text and whose
\* search window holds a sentence ending ends at the boundary nearest to the
\* tentative end among all boundaries in the window.
C40_NearestTerminatorWins ==
    Chunking =>
        \A k \in DOMAIN calls[1].spans :
            LET c == calls[1]
                end == PassStart(c, k) + c.chunkSize
                found == TerminatorBoundaries(c.cleanText, end)
            IN  (end < Len(c.cleanText) /\ found # {})
                    => /\ c.spans[k].end \in found
                       /\ \A b \in found :
                             Abs(c.spans[k].end - end) <= Abs(b - end)

====
